---------------------------- MODULE Spec2Model ----------------------------
(***************************************************************************)
(* A model of DatabaseService (src/unnamed/part_000): the signed QR token  *)
(* (generateSecureQRData / verifyQRData), the seed obfuscation             *)
(* (encryptData / decryptData) and the users table with its seeding.       *)
(*                                                                         *)
(* Text is modelled character by character: a JavaScript string is a       *)
(* sequence of code points, JSON text is produced and parsed as text, and  *)
(* base64 / UTF-8 are computed on bytes.  JavaScript values are tagged     *)
(* pairs <<tag, content>>.                                                 *)
(***************************************************************************)
EXTENDS Integers, Sequences, FiniteSets, TLC

VARIABLES
  clock,    \* Date.now(), in milliseconds
  ticks,    \* how many times the clock has advanced
  device,   \* what expo-device reports
  qr,       \* the token generateSecureQRData returned last
  scan,     \* the text verifyQRData was last called on, and its outcome
  obf,      \* a string on its way through encryptData and decryptData
  database,     \* this.database: "null"; "bare" once openDatabaseAsync returned a
                \* handle on a file that has no users table yet; "open" once
                \* the handle is there and the table is
  users,        \* the rows of the users table, in the order they were inserted
  secureStore,  \* the items of the secure store, null for one that is absent
  seedWrites,   \* how often setItemAsync('demo_users_seed', ...) has run
  op,           \* the last call on the database service, and what it returned
  app,          \* the screens: the user in the context, the route, the login form
  calls         \* the asynchronous calls in flight, each with its position and locals

qrVars == <<clock, ticks, device, qr, scan>>
obfVars == <<obf>>
storeVars == <<database, users, secureStore, seedWrites, op>>
appVars == <<app, calls>>
vars == <<qrVars, obfVars, storeVars, appVars>>

(***************************************************************************)
(* Sequences                                                               *)
(***************************************************************************)
RECURSIVE Flatten(_, _, _)
\* the concatenation f[lo] \o ... \o f[hi] of a sequence of sequences
Flatten(f, lo, hi) ==
  IF lo > hi THEN <<>>
  ELSE IF lo = hi THEN f[lo]
  ELSE LET mid == (lo + hi) \div 2
       IN Flatten(f, lo, mid) \o Flatten(f, mid + 1, hi)

FlatAll(f) == Flatten(f, 1, Len(f))

MinOf(S) == CHOOSE i \in S : \A j \in S : i <= j

Reverse(s) == [i \in 1..Len(s) |-> s[Len(s) + 1 - i]]

\* String.prototype.indexOf(pat, from), 1-based; 0 when pat does not occur
IndexOf(s, pat, from) ==
  LET hits == {i \in from..(Len(s) - Len(pat) + 1) :
                 \A k \in 1..Len(pat) : s[i + k - 1] = pat[k]}
  IN IF hits = {} THEN 0 ELSE MinOf(hits)

RECURSIVE SplitFrom(_, _, _)
SplitFrom(s, sep, from) ==
  LET i == IndexOf(s, sep, from)
  IN IF i = 0 THEN <<SubSeq(s, from, Len(s))>>
     ELSE <<SubSeq(s, from, i - 1)>> \o SplitFrom(s, sep, i + Len(sep))

\* String.prototype.split(sep) for a non-empty separator: the array of parts
Split(s, sep) == SplitFrom(s, sep, 1)

\* String.prototype.substring(0, n)
Substring0(s, n) == SubSeq(s, 1, IF n < Len(s) THEN n ELSE Len(s))

(***************************************************************************)
(* JavaScript values: <<tag, content>>                                     *)
(***************************************************************************)
Undefined == <<"undefined", 0>>
Null      == <<"null", 0>>
NaN       == <<"nan", 0>>
Num(n)    == <<"number", n>>
Str(s)    == <<"string", s>>
Bool(b)   == <<"boolean", b>>
Arr(xs)   == <<"array", xs>>
\* an object is its properties in insertion order, each <<key, value>>
Obj(ps)   == <<"object", ps>>

Tag(v)  == v[1]
ValOf(v) == v[2]

\* results of operations that may throw
Ok(v)    == <<"ok", v>>
Throw(e) == <<"throw", e>>
IsOk(r)  == r[1] = "ok"

\* obj[key] on an object value: the last property of that name, else undefined
GetProp(o, key) ==
  LET ps == ValOf(o)
      hits == {i \in 1..Len(ps) : ps[i][1] = key}
  IN IF hits = {} THEN Undefined
     ELSE ps[CHOOSE i \in hits : \A j \in hits : j <= i][2]

\* v.key as JavaScript evaluates it: a TypeError on null and undefined,
\* undefined on the other primitives and on arrays (no such own property)
Member(v, key) ==
  CASE Tag(v) \in {"undefined", "null"} -> Throw("TypeError")
    [] Tag(v) = "object" -> Ok(GetProp(v, key))
    [] OTHER -> Ok(Undefined)

\* !v
Falsy(v) ==
  CASE Tag(v) \in {"undefined", "null", "nan"} -> TRUE
    [] Tag(v) = "boolean" -> ~ValOf(v)
    [] Tag(v) = "number" -> ValOf(v) = 0
    [] Tag(v) = "string" -> ValOf(v) = <<>>
    [] OTHER -> FALSE

(***************************************************************************)
(* Encodings                                                               *)
(***************************************************************************)
\* the UTF-8 bytes of one code point (encodeURIComponent followed by unescape)
Utf8Bytes(c) ==
  IF c < 128 THEN <<c>>
  ELSE IF c < 2048 THEN <<192 + (c \div 64), 128 + (c % 64)>>
  ELSE IF c < 65536 THEN <<224 + (c \div 4096), 128 + ((c \div 64) % 64), 128 + (c % 64)>>
  ELSE <<240 + (c \div 262144), 128 + ((c \div 4096) % 64),
         128 + ((c \div 64) % 64), 128 + (c % 64)>>

\* unescape(encodeURIComponent(s)): the string whose characters are the UTF-8 bytes of s
Utf8Encode(s) == FlatAll([i \in 1..Len(s) |-> Utf8Bytes(s[i])])

IsCont(b) == b >= 128 /\ b < 192

\* the length a lead byte announces; 0 for a byte that cannot lead
Utf8Width(b) ==
  IF b < 128 THEN 1
  ELSE IF b >= 194 /\ b < 224 THEN 2
  ELSE IF b >= 224 /\ b < 240 THEN 3
  ELSE IF b >= 240 /\ b < 245 THEN 4
  ELSE 0

\* the code point of the well-formed sequence that starts at byte i
Utf8At(bs, i) ==
  LET w == Utf8Width(bs[i])
  IN CASE w = 1 -> bs[i]
       [] w = 2 -> (bs[i] - 192) * 64 + (bs[i + 1] - 128)
       [] w = 3 -> (bs[i] - 224) * 4096 + (bs[i + 1] - 128) * 64 + (bs[i + 2] - 128)
       [] OTHER -> (bs[i] - 240) * 262144 + (bs[i + 1] - 128) * 4096
                     + (bs[i + 2] - 128) * 64 + (bs[i + 3] - 128)

\* byte i starts a sequence, or continues the one a lead byte before it started
Utf8WellFormedAt(bs, i) ==
  IF IsCont(bs[i])
  THEN \E k \in 1..3 : /\ i - k >= 1
                       /\ Utf8Width(bs[i - k]) > k
                       /\ \A j \in (i - k + 1)..(i - 1) : IsCont(bs[j])
  ELSE LET w == Utf8Width(bs[i])
       IN /\ w > 0
          /\ i + w - 1 <= Len(bs)
          /\ \A j \in (i + 1)..(i + w - 1) : IsCont(bs[j])
          /\ w = 3 => Utf8At(bs, i) >= 2048
          /\ w = 4 => Utf8At(bs, i) >= 65536

\* decodeURIComponent(escape(bs)): throws URIError on malformed UTF-8
Utf8Decode(bs) ==
  IF \A i \in 1..Len(bs) : bs[i] < 256 /\ Utf8WellFormedAt(bs, i)
  THEN Ok(FlatAll([i \in 1..Len(bs) |->
                     IF IsCont(bs[i]) THEN <<>> ELSE <<Utf8At(bs, i)>>]))
  ELSE Throw("URIError")

\* the character of a base64 digit 0..63: A-Z a-z 0-9 + /
B64Char(v) ==
  IF v < 26 THEN 65 + v
  ELSE IF v < 52 THEN 97 + (v - 26)
  ELSE IF v < 62 THEN 48 + (v - 52)
  ELSE IF v = 62 THEN 43 ELSE 47


\* the digit of a base64 character; -1 for any other character
B64Val(c) ==
  IF c >= 65 /\ c <= 90 THEN c - 65
  ELSE IF c >= 97 /\ c <= 122 THEN c - 97 + 26
  ELSE IF c >= 48 /\ c <= 57 THEN c - 48 + 52
  ELSE IF c = 43 THEN 62
  ELSE IF c = 47 THEN 63
  ELSE 0 - 1

\* btoa(bs): base64 of a string of characters below 256
Btoa(bs) ==
  LET n == Len(bs)
      byte(i) == IF i <= n THEN bs[i] ELSE 0
      ch(k) == LET g == (k - 1) \div 4
                   b1 == byte(3 * g + 1)
                   b2 == byte(3 * g + 2)
                   b3 == byte(3 * g + 3)
               IN CASE (k - 1) % 4 = 0 -> B64Char(b1 \div 4)
                    [] (k - 1) % 4 = 1 -> B64Char((b1 % 4) * 16 + (b2 \div 16))
                    [] (k - 1) % 4 = 2 -> IF 3 * g + 2 > n THEN 61
                                          ELSE B64Char((b2 % 16) * 4 + (b3 \div 64))
                    [] OTHER -> IF 3 * g + 3 > n THEN 61 ELSE B64Char(b3 % 64)
  IN IF \E i \in 1..n : bs[i] > 255 THEN Throw("InvalidCharacterError")
     ELSE Ok([k \in 1..(4 * ((n + 2) \div 3)) |-> ch(k)])

\* the bytes of base64 digits ds, which are padded with zero digits at the end
B64Bytes(ds) ==
  LET m == Len(ds)
      v(k) == IF k > m THEN 0 ELSE B64Val(ds[k])
      byte(i) == LET k == 4 * ((i - 1) \div 3)
                 IN CASE (i - 1) % 3 = 0 -> v(k + 1) * 4 + (v(k + 2) \div 16)
                      [] (i - 1) % 3 = 1 -> (v(k + 2) % 16) * 16 + (v(k + 3) \div 4)
                      [] OTHER -> (v(k + 3) % 4) * 64 + v(k + 4)
  IN IF m % 4 = 1 \/ \E k \in 1..m : B64Val(ds[k]) < 0
     THEN Throw("InvalidCharacterError")
     ELSE Ok(SubSeq([i \in 1..((3 * m) \div 4) |-> byte(i)], 1, (3 * m) \div 4))

\* t without the one or two = that pad it to a multiple of four
Unpadded(t) ==
  IF Len(t) % 4 = 0 /\ Len(t) >= 2 /\ t[Len(t)] = 61 /\ t[Len(t) - 1] = 61
  THEN SubSeq(t, 1, Len(t) - 2)
  ELSE IF Len(t) % 4 = 0 /\ Len(t) >= 1 /\ t[Len(t)] = 61 THEN SubSeq(t, 1, Len(t) - 1)
  ELSE t

\* atob(s): the string whose characters are the bytes s encodes. White space
\* is dropped first; a character outside the alphabet, or a length that leaves
\* one digit over, throws
Atob(s) == B64Bytes(Unpadded(SelectSeq(s, LAMBDA ch : ch \notin {9, 10, 12, 13, 32})))

\* a lower-case hexadecimal digit
HexChar(v) == IF v < 10 THEN 48 + v ELSE 97 + (v - 10)

\* Crypto.digestStringAsync(SHA256, s): a hexadecimal digest.  SHA-256 is taken
\* to be collision-free and is stood in for by an injective map into
\* hexadecimal text whose leading digits depend on the end of the input.
Digest(s) ==
  LET bs == Reverse(Utf8Encode(s))
  IN [k \in 1..(2 * Len(bs)) |->
        IF k % 2 = 1 THEN HexChar(bs[(k + 1) \div 2] \div 16)
        ELSE HexChar(bs[k \div 2] % 16)]

(***************************************************************************)
(* JSON text                                                               *)
(***************************************************************************)
RECURSIVE FirstWhere(_, _, _)
\* the least j in lo..hi with P(j), searched a window at a time; 0 when none
FirstWhere(P(_), lo, hi) ==
  IF lo > hi THEN 0
  ELSE LET top == IF lo + 15 < hi THEN lo + 15 ELSE hi
           hits == {j \in lo..top : P(j)}
       IN IF hits # {} THEN MinOf(hits) ELSE FirstWhere(P, top + 1, hi)

\* the character at i, or -1 past the end of the text
At(t, i) == IF i >= 1 /\ i <= Len(t) THEN t[i] ELSE -1

StartsWith(t, i, word) == \A k \in 1..Len(word) : At(t, i + k - 1) = word[k]

IsDigit(c) == c >= 48 /\ c <= 57

HexVal(c) ==
  IF IsDigit(c) THEN c - 48
  ELSE IF c >= 97 /\ c <= 102 THEN c - 87
  ELSE IF c >= 65 /\ c <= 70 THEN c - 55
  ELSE -1

RECURSIVE NatText(_)
\* the decimal digits of a natural number
NatText(n) == IF n < 10 THEN <<48 + n>> ELSE NatText(n \div 10) \o <<48 + (n % 10)>>

\* Number.prototype.toString of an integer
NumText(n) == IF n < 0 THEN <<45>> \o NatText(-n) ELSE NatText(n)

\* the characters JSON.stringify writes for one character of a string
QuoteChar(c) ==
  CASE c = 34 -> <<92, 34>>
    [] c = 92 -> <<92, 92>>
    [] c = 8 -> <<92, 98>>
    [] c = 9 -> <<92, 116>>
    [] c = 10 -> <<92, 110>>
    [] c = 12 -> <<92, 102>>
    [] c = 13 -> <<92, 114>>
    [] c < 32 /\ c \notin {8, 9, 10, 12, 13} ->
         <<92, 117, 48, 48, HexChar(c \div 16), HexChar(c % 16)>>
    [] OTHER -> <<c>>

\* a string as a JSON string literal
Quote(s) == <<34>> \o FlatAll([i \in 1..Len(s) |-> QuoteChar(s[i])]) \o <<34>>

RECURSIVE JsonText(_)
\* the text JSON.stringify writes for a value other than undefined
JsonText(v) ==
  CASE Tag(v) = "string" -> Quote(ValOf(v))
    [] Tag(v) = "number" -> NumText(ValOf(v))
    [] Tag(v) = "boolean" -> IF ValOf(v) THEN <<116, 114, 117, 101>>
                             ELSE <<102, 97, 108, 115, 101>>
    [] Tag(v) = "array" ->
         LET xs == ValOf(v)
         IN <<91>> \o FlatAll([i \in 1..Len(xs) |->
                        (IF i > 1 THEN <<44>> ELSE <<>>) \o JsonText(xs[i])]) \o <<93>>
    [] Tag(v) = "object" ->
         \* a property whose value is undefined is left out
         LET ps == SelectSeq(ValOf(v), LAMBDA p : p[2] # Undefined)
         IN <<123>> \o FlatAll([i \in 1..Len(ps) |->
                         (IF i > 1 THEN <<44>> ELSE <<>>) \o Quote(ps[i][1])
                           \o <<58>> \o JsonText(ps[i][2])]) \o <<125>>
    [] OTHER -> <<110, 117, 108, 108>>     \* null, NaN, undefined in an array

\* JSON.stringify(v)
JsonStringify(v) == IF v = Undefined THEN Undefined ELSE Str(JsonText(v))

RECURSIVE SkipWs(_, _)
SkipWs(t, i) == IF At(t, i) \in {32, 9, 10, 13} THEN SkipWs(t, i + 1) ELSE i

RECURSIVE BsRun(_, _, _)
\* the number of backslashes that end at j, none before lo counted
BsRun(t, j, lo) == IF j >= lo /\ t[j] = 92 THEN 1 + BsRun(t, j - 1, lo) ELSE 0

SyntaxError == <<"throw", "SyntaxError", 0>>

\* the character at j of a string body that starts at lo is not escaped
Unescaped(t, j, lo) == BsRun(t, j - 1, lo) % 2 = 0

\* j is one of the four digits of a \u escape
InU(t, j, lo) ==
  \E k \in 1..4 : j - k >= lo /\ t[j - k] = 117 /\ ~Unescaped(t, j - k, lo)

\* the character at j is allowed where it stands in a string body lo..hi
GoodChar(t, j, lo, hi) ==
  IF InU(t, j, lo) THEN TRUE
  ELSE IF Unescaped(t, j, lo) THEN t[j] >= 32 /\ (t[j] = 92 => j < hi)
  ELSE \/ t[j] \in {34, 92, 47, 98, 102, 110, 114, 116}
       \/ /\ t[j] = 117
          /\ j + 4 <= hi
          /\ \A k \in 1..4 : HexVal(t[j + k]) >= 0

\* what the character at j of a string body adds to the string
BodyChar(t, j, lo) ==
  IF InU(t, j, lo) \/ (Unescaped(t, j, lo) /\ t[j] = 92) THEN <<>>
  ELSE IF Unescaped(t, j, lo) THEN <<t[j]>>
  ELSE CASE t[j] = 98 -> <<8>>
         [] t[j] = 102 -> <<12>>
         [] t[j] = 110 -> <<10>>
         [] t[j] = 114 -> <<13>>
         [] t[j] = 116 -> <<9>>
         [] t[j] = 117 -> <<HexVal(t[j + 1]) * 4096 + HexVal(t[j + 2]) * 256
                              + HexVal(t[j + 3]) * 16 + HexVal(t[j + 4])>>
         [] OTHER -> <<t[j]>>

\* the string whose body is lo..hi: <<"ok", string, next index>>
StringBody(t, lo, hi) ==
  IF hi < lo - 1 THEN SyntaxError          \* no closing quote
  ELSE IF \A j \in lo..hi : t[j] # 92
       \* no escape: the characters between the quotes, none a control character
       THEN IF \E j \in lo..hi : t[j] < 32 THEN SyntaxError
            ELSE <<"ok", Str(SubSeq(t, lo, hi)), hi + 2>>
  ELSE IF \E j \in lo..hi : ~GoodChar(t, j, lo, hi) THEN SyntaxError
  ELSE <<"ok", Str(Flatten([j \in lo..hi |-> BodyChar(t, j, lo)], lo, hi)), hi + 2>>

\* the string literal whose opening quote is at i
ParseString(t, i) ==
  StringBody(t, i + 1,
             FirstWhere(LAMBDA j : t[j] = 34 /\ Unescaped(t, j, i + 1), i + 1, Len(t)) - 1)

RECURSIVE ParseNat(_, _, _)
ParseNat(t, i, acc) ==
  IF IsDigit(At(t, i)) THEN ParseNat(t, i + 1, acc * 10 + (t[i] - 48)) ELSE <<acc, i>>

\* r is <<digits read, next index>>
NumberEnd(t, r) ==
  IF At(t, r[2]) \in {46, 69, 101} THEN SyntaxError ELSE <<"ok", Num(r[1]), r[2]>>

\* an unsigned integer literal at d (fractions and exponents are outside the model)
ParseDigits(t, d) ==
  IF ~IsDigit(At(t, d)) \/ (t[d] = 48 /\ IsDigit(At(t, d + 1))) THEN SyntaxError
  ELSE NumberEnd(t, ParseNat(t, d, 0))

Negated(r) == IF r[1] = "ok" THEN <<"ok", Num(-ValOf(r[2])), r[3]>> ELSE r

\* an integer literal at i
ParseNumber(t, i) ==
  IF At(t, i) = 45 THEN Negated(ParseDigits(t, i + 1)) ELSE ParseDigits(t, i)

RECURSIVE ParseValue(_, _), ParseElements(_, _, _), ParseMembers(_, _, _)

\* after an element: a comma and more elements, or the closing bracket
ElementsNext(t, j, acc) ==
  IF At(t, j) = 44 THEN ParseElements(t, j + 1, acc)
  ELSE IF At(t, j) = 93 THEN <<"ok", Arr(acc), j + 1>>
  ELSE SyntaxError

ElementsAfter(t, r, acc) ==
  IF r[1] # "ok" THEN SyntaxError
  ELSE ElementsNext(t, SkipWs(t, r[3]), Append(acc, r[2]))

\* the elements of an array from i on, acc the ones already read
ParseElements(t, i, acc) == ElementsAfter(t, ParseValue(t, i), acc)

\* after a member: a comma and more members, or the closing brace
MembersNext(t, j, acc) ==
  IF At(t, j) = 44 THEN ParseMembers(t, j + 1, acc)
  ELSE IF At(t, j) = 125 THEN <<"ok", Obj(acc), j + 1>>
  ELSE SyntaxError

MemberAfter(t, key, r, acc) ==
  IF r[1] # "ok" THEN SyntaxError
  ELSE MembersNext(t, SkipWs(t, r[3]), Append(acc, <<key, r[2]>>))

MemberColon(t, key, c, acc) ==
  IF At(t, c) # 58 THEN SyntaxError
  ELSE MemberAfter(t, key, ParseValue(t, c + 1), acc)

MemberKey(t, key, acc) ==
  IF key[1] # "ok" THEN SyntaxError
  ELSE MemberColon(t, ValOf(key[2]), SkipWs(t, key[3]), acc)

MemberAt(t, k, acc) ==
  IF At(t, k) # 34 THEN SyntaxError ELSE MemberKey(t, ParseString(t, k), acc)

\* the members of an object from i on, acc the ones already read
ParseMembers(t, i, acc) == MemberAt(t, SkipWs(t, i), acc)

\* j is the first character after [
ArrayAt(t, j) ==
  IF At(t, j) = 93 THEN <<"ok", Arr(<<>>), j + 1>> ELSE ParseElements(t, j, <<>>)

\* j is the first character after {
ObjectAt(t, j) ==
  IF At(t, j) = 125 THEN <<"ok", Obj(<<>>), j + 1>> ELSE ParseMembers(t, j, <<>>)

\* the JSON value that starts at i: <<"ok", value, next index>>
ValueAt(t, i) ==
  CASE At(t, i) = 34 -> ParseString(t, i)
    [] At(t, i) = 45 \/ IsDigit(At(t, i)) -> ParseNumber(t, i)
    [] At(t, i) = 91 -> ArrayAt(t, SkipWs(t, i + 1))
    [] At(t, i) = 123 -> ObjectAt(t, SkipWs(t, i + 1))
    [] StartsWith(t, i, <<110, 117, 108, 108>>) -> <<"ok", Null, i + 4>>
    [] StartsWith(t, i, <<116, 114, 117, 101>>) -> <<"ok", Bool(TRUE), i + 4>>
    [] StartsWith(t, i, <<102, 97, 108, 115, 101>>) -> <<"ok", Bool(FALSE), i + 5>>
    [] OTHER -> SyntaxError

\* the JSON value that starts at or after i
ParseValue(t, i) == ValueAt(t, SkipWs(t, i))

\* r is what ParseValue read from the start of t: nothing may follow it
ParseEnd(t, r) ==
  IF r[1] = "ok" /\ SkipWs(t, r[3]) = Len(t) + 1 THEN Ok(r[2])
  ELSE Throw("SyntaxError")

\* JSON.parse(t) of a text: the value, or a SyntaxError
JsonParseText(t) == ParseEnd(t, ParseValue(t, 1))

(***************************************************************************)
(* JavaScript conversions                                                  *)
(***************************************************************************)
RECURSIVE JsToString(_)
\* String(v)
JsToString(v) ==
  CASE Tag(v) = "string" -> ValOf(v)
    [] Tag(v) = "number" -> NumText(ValOf(v))
    [] Tag(v) = "nan" -> <<78, 97, 78>>
    [] Tag(v) = "boolean" -> IF ValOf(v) THEN <<116, 114, 117, 101>>
                             ELSE <<102, 97, 108, 115, 101>>
    [] Tag(v) = "null" -> <<110, 117, 108, 108>>
    [] Tag(v) = "undefined" -> <<117, 110, 100, 101, 102, 105, 110, 101, 100>>
    [] Tag(v) = "array" ->
         \* Array.prototype.join(","): null and undefined elements are empty
         LET xs == ValOf(v)
         IN FlatAll([i \in 1..Len(xs) |->
                       (IF i > 1 THEN <<44>> ELSE <<>>)
                         \o (IF Tag(xs[i]) \in {"null", "undefined"} THEN <<>>
                             ELSE JsToString(xs[i]))])
    [] OTHER -> <<91, 111, 98, 106, 101, 99, 116, 32, 79, 98, 106, 101, 99, 116, 93>>

\* r is <<digits read, next index>>: nothing but white space may follow
SignedEnd(s, neg, r) ==
  IF SkipWs(s, r[2]) = Len(s) + 1 THEN Num(IF neg THEN -r[1] ELSE r[1]) ELSE NaN

DigitsToNumber(s, neg, d) ==
  IF IsDigit(At(s, d)) THEN SignedEnd(s, neg, ParseNat(s, d, 0)) ELSE NaN

TrimmedToNumber(s, lo) ==
  IF lo > Len(s) THEN Num(0)
  ELSE DigitsToNumber(s, At(s, lo) = 45, IF At(s, lo) \in {43, 45} THEN lo + 1 ELSE lo)

\* Number(s) of a string: an optionally signed run of digits between white
\* space, the empty string as 0, anything else NaN (other numeric literals are
\* outside the model)
StringToNumber(s) == TrimmedToNumber(s, SkipWs(s, 1))

\* Number(v)
ToNumber(v) ==
  CASE Tag(v) = "number" -> v
    [] Tag(v) = "boolean" -> Num(IF ValOf(v) THEN 1 ELSE 0)
    [] Tag(v) = "null" -> Num(0)
    [] Tag(v) = "string" -> StringToNumber(ValOf(v))
    [] Tag(v) \in {"array", "object"} -> StringToNumber(JsToString(v))
    [] OTHER -> NaN

\* x - y of numbers
NumMinus(x, y) == IF x = NaN \/ y = NaN THEN NaN ELSE Num(ValOf(x) - ValOf(y))

\* a - b
Minus(a, b) == NumMinus(ToNumber(a), ToNumber(b))

\* x > y of numbers: false as soon as a side is NaN
NumGreater(x, y) == x # NaN /\ y # NaN /\ ValOf(x) > ValOf(y)

\* a > b where a is a number
GreaterThan(a, b) == NumGreater(ToNumber(a), ToNumber(b))

\* a || b
OrElse(a, b) == IF Falsy(a) THEN b ELSE a

\* JSON.parse(v): the argument is converted to a string first
JsonParse(v) == JsonParseText(JsToString(v))

(***************************************************************************)
(* The QR token: generateSecureQRData and verifyQRData                     *)
(***************************************************************************)
K_user_id            == <<117, 115, 101, 114, 95, 105, 100>>
K_email              == <<101, 109, 97, 105, 108>>
K_name               == <<110, 97, 109, 101>>
K_access_level       == <<97, 99, 99, 101, 115, 115, 95, 108, 101, 118, 101, 108>>
K_allowed_areas      == <<97, 108, 108, 111, 119, 101, 100, 95, 97, 114, 101, 97, 115>>
K_timestamp          == <<116, 105, 109, 101, 115, 116, 97, 109, 112>>
K_expires_at         == <<101, 120, 112, 105, 114, 101, 115, 95, 97, 116>>
K_device_fingerprint == <<100, 101, 118, 105, 99, 101, 95, 102, 105, 110, 103, 101,
                          114, 112, 114, 105, 110, 116>>
K_version            == <<118, 101, 114, 115, 105, 111, 110>>
K_phone              == <<112, 104, 111, 110, 101>>
K_is_active          == <<105, 115, 95, 97, 99, 116, 105, 118, 101>>
K_id                 == <<105, 100>>
K_data               == <<100, 97, 116, 97>>
K_signature          == <<115, 105, 103, 110, 97, 116, 117, 114, 101>>

\* 'unknown'
Unknown == Str(<<117, 110, 107, 110, 111, 119, 110>>)
\* '2.0'
Version == Str(<<50, 46, 48>>)
\* 'event_secret_key_2024', as generateSecureQRData spells it
SignSecret == <<101, 118, 101, 110, 116, 95, 115, 101, 99, 114, 101, 116, 95, 107,
                101, 121, 95, 50, 48, 50, 52>>
\* 'event_secret_key_2024', as verifyQRData spells it
VerifySecret == <<101, 118, 101, 110, 116, 95, 115, 101, 99, 114, 101, 116, 95, 107,
                  101, 121, 95, 50, 48, 50, 52>>

\* 1 hour expiry, in milliseconds
ExpiryMs == 60 * 60 * 1000
\* older than 24 hours, in milliseconds
MaxAgeMs == 24 * 60 * 60 * 1000

\* getDeviceFingerprint: the digest of `${deviceId}-${deviceName}-${osVersion}`
GetDeviceFingerprint(dev) ==
  Digest(JsToString(OrElse(dev.osInternalBuildId, Unknown)) \o <<45>>
           \o JsToString(OrElse(dev.deviceName, Unknown)) \o <<45>>
           \o JsToString(OrElse(dev.osVersion, Unknown)))

\* the inner payload with an expiry that adds nothing to the issuing time
QrPayloadNoHour(user, dev, now) ==
  Obj(<< <<K_user_id, Num(user.id)>>,
         <<K_email, Str(user.email)>>,
         <<K_name, Str(user.name)>>,
         <<K_access_level, Str(user.access_level)>>,
         <<K_allowed_areas,
           Arr([i \in 1..Len(user.allowed_areas) |-> Str(user.allowed_areas[i])])>>,
         <<K_timestamp, Num(now)>>,
         <<K_expires_at, Num(now)>>,
         <<K_device_fingerprint, Str(GetDeviceFingerprint(dev))>>,
         <<K_version, Version>> >>)

\* the inner payload generateSecureQRData builds at time now
QrPayload(user, dev, now) ==
  Obj(<< <<K_user_id, Num(user.id)>>,
         <<K_email, Str(user.email)>>,
         <<K_name, Str(user.name)>>,
         <<K_access_level, Str(user.access_level)>>,
         <<K_allowed_areas,
           Arr([i \in 1..Len(user.allowed_areas) |-> Str(user.allowed_areas[i])])>>,
         <<K_timestamp, Num(now)>>,
         <<K_expires_at, Num(now + ExpiryMs)>>,
         <<K_device_fingerprint, Str(GetDeviceFingerprint(dev))>>,
         <<K_version, Version>> >>)

\* the envelope object { data, signature, timestamp }
SecurePayload(data, signature, timestamp) ==
  Obj(<< <<K_data, data>>, <<K_signature, signature>>, <<K_timestamp, timestamp>> >>)

\* generateSecureQRData(user) at time now: the envelope as text
GenerateSecureQRData(user, dev, now) ==
  LET payloadString == JsonText(QrPayload(user, dev, now))
      signature == Digest(payloadString \o SignSecret)
  IN JsonText(SecurePayload(Str(payloadString), Str(signature), Num(now)))

\* the object verifyQRData returns: { valid, reason } or { valid, payload }
Invalid(reason) == [valid |-> FALSE, reason |-> reason, payload |-> Undefined]
Valid(payload)  == [valid |-> TRUE, reason |-> "", payload |-> payload]

\* a soft expiry test that lets every payload through
SoftNeverExpired(expiresAt, now) == FALSE

\* the soft expiry test: payload.expires_at && Date.now() > payload.expires_at
SoftExpired(expiresAt, now) == ~Falsy(expiresAt) /\ GreaterThan(Num(now), expiresAt)

\* the hard window test: Date.now() - parsed.timestamp > 24 * 60 * 60 * 1000
TooOld(timestamp, now) == GreaterThan(Minus(Num(now), timestamp), Num(MaxAgeMs))

\* the format test: !parsed.data || !parsed.signature || !parsed.timestamp
BadFormat(data, signature, timestamp) ==
  Falsy(data) \/ Falsy(signature) \/ Falsy(timestamp)

\* the signature verifyQRData expects for parsed.data
ExpectedSignature(data) == Str(Digest(JsToString(data) \o VerifySecret))

\* a comparison that finds every signature equal to the expected one
SignatureNeverMismatch(signature, data) == FALSE

\* parsed.signature !== expectedSignature
SignatureMismatch(signature, data) == signature # ExpectedSignature(data)

\* the soft expiry check, and the success that follows it
VerifyExpiry(payload, expiresAt, later) ==
  IF ~IsOk(expiresAt) THEN expiresAt                      \* payload is null
  ELSE IF SoftExpired(expiresAt[2], later) THEN Ok(Invalid("QR code expired"))
  ELSE Ok(Valid(payload))

\* what follows const payload = JSON.parse(parsed.data)
VerifyPayload(payload, later) ==
  IF ~IsOk(payload) THEN payload
  ELSE VerifyExpiry(payload[2], Member(payload[2], K_expires_at), later)

\* the format, hard window and signature checks, on the three fields read
VerifyEnvelope(data, signature, timestamp, now, later) ==
  IF ~IsOk(data) THEN data                                \* parsed is null
  ELSE IF BadFormat(data[2], signature[2], timestamp[2])
       THEN Ok(Invalid("Invalid QR format"))
  ELSE IF TooOld(timestamp[2], now) THEN Ok(Invalid("QR code expired"))
  ELSE IF SignatureMismatch(signature[2], data[2]) THEN Ok(Invalid("QR code tampered"))
  ELSE VerifyPayload(JsonParse(data[2]), later)

\* what follows const parsed = JSON.parse(qrData)
VerifyParsed(parsed, now, later) ==
  IF ~IsOk(parsed) THEN parsed
  ELSE VerifyEnvelope(Member(parsed[2], K_data), Member(parsed[2], K_signature),
                      Member(parsed[2], K_timestamp), now, later)

\* the try block of verifyQRData: the object returned, or what was thrown.
\* Date.now() is read twice, before and after the signature digest is awaited:
\* now is the first reading, later the second
VerifyTry(qrData, now, later) == VerifyParsed(JsonParseText(qrData), now, later)

\* no catch clause: what was thrown goes on to the caller
VerifyNoCatch(r) == r

\* the catch clause of verifyQRData: whatever was thrown becomes a result
VerifyCatch(r) == IF IsOk(r) THEN r ELSE Ok(Invalid("Invalid QR data"))

\* verifyQRData(qrData): <<"ok", result>>, or <<"throw", e>> if it raised
VerifyQRData(qrData, now, later) == VerifyCatch(VerifyTry(qrData, now, later))

(***************************************************************************)
(* The obfuscation of the seed blob: encryptData and decryptData           *)
(***************************************************************************)
\* 'demo_encryption_key_2024'
EncryptionKey ==
  <<100, 101, 109, 111, 95, 101, 110, 99, 114, 121, 112, 116, 105, 111, 110, 95,
    107, 101, 121, 95, 50, 48, 50, 52>>

\* '::'
Separator == <<58, 58>>

\* key.substring(0, 32) of the digest of the key text and the salt
KeyFragment(saltBase64) == Substring0(Digest(EncryptionKey \o saltBase64), 32)

\* a string with a surrogate that stands alone, which encodeURIComponent refuses
HasLoneSurrogate(s) == \E i \in 1..Len(s) : s[i] >= 55296 /\ s[i] <= 57343

\* btoa(unescape(encodeURIComponent(dataWithKey)))
EncodeWithKey(dataWithKey) ==
  IF HasLoneSurrogate(dataWithKey) THEN Throw("URIError")
  ELSE Btoa(Utf8Encode(dataWithKey))

\* saltBase64 + '::' + encryptedData
JoinSalt(saltBase64, encrypted) ==
  IF IsOk(encrypted) THEN Ok(saltBase64 \o Separator \o encrypted[2]) ELSE encrypted

EncryptWithSalt(data, saltBase64) ==
  JoinSalt(saltBase64, EncodeWithKey(data \o Separator \o KeyFragment(saltBase64)))

\* encryptData(data) when getRandomBytesAsync(16) returns salt: the text
\* returned, or what was thrown (the catch clause logs and throws it again)
EncryptData(data, salt) == EncryptWithSalt(data, Btoa(salt)[2])

\* decryptedWithKey.split('::' + key.substring(0, 32)), its first element
OriginalData(decryptedWithKey, saltBase64) ==
  IF IsOk(decryptedWithKey)
  THEN Ok(Split(decryptedWithKey[2], Separator \o KeyFragment(saltBase64))[1])
  ELSE decryptedWithKey

\* decodeURIComponent(escape(atob(encrypted)))
DecodeWithKey(bytes) == IF IsOk(bytes) THEN Utf8Decode(bytes[2]) ELSE bytes

\* the two names the destructuring binds: encrypted is undefined when the
\* text has no '::', and atob(undefined) throws
DecryptParts(parts) ==
  IF Len(parts) < 2 THEN Throw("InvalidCharacterError")
  ELSE OriginalData(DecodeWithKey(Atob(parts[2])), parts[1])

\* decryptData(encryptedData): the text returned, or what was thrown
DecryptData(encryptedData) == DecryptParts(Split(encryptedData, Separator))

(***************************************************************************)
(* The users table and the secure store                                    *)
(***************************************************************************)
\* new Error('Database not initialized')
NotInitialized == Throw("Database not initialized")

\* what the engine throws for a statement on the users table of a file in
\* which createTables has not run yet
NoSuchTable == Throw("no such table: users")

\* a column of a JavaScript object; a value that is no object has none
Column(user, key) == IF Tag(user) = "object" THEN GetProp(user, key) ELSE Undefined

\* the rowid SQLite gives a new row: one more than the largest in the table
NextRowId(table) ==
  IF table = <<>> THEN 1
  ELSE 1 + (CHOOSE n \in {table[i].id : i \in 1..Len(table)} :
              \A i \in 1..Len(table) : table[i].id <= n)

\* the row INSERT ... VALUES (?, ?, ?, ?, ?, ?) writes for user
NewRow(table, user) ==
  [id |-> NextRowId(table),
   email |-> Column(user, K_email),
   name |-> Column(user, K_name),
   phone |-> Column(user, K_phone),
   access_level |-> Column(user, K_access_level),
   allowed_areas |-> JsonStringify(Column(user, K_allowed_areas)),
   is_active |-> IF Falsy(Column(user, K_is_active)) THEN 0 ELSE 1]

\* undefined and null are bound as NULL
IsNull(v) == Tag(v) \in {"undefined", "null"}

\* a NOT NULL column of the row is NULL
BreaksNotNull(row) ==
  \/ IsNull(row.email) \/ IsNull(row.name) \/ IsNull(row.phone)
  \/ IsNull(row.access_level) \/ IsNull(row.allowed_areas)

\* email TEXT UNIQUE: a row of the table has this email
BreaksUnique(table, row) ==
  \E i \in 1..Len(table) :
    Tag(table[i].email) = Tag(row.email) /\ table[i].email = row.email

\* INSERT OR REPLACE: a row with the same email gives way to the new one
InsertOrReplace(table, row) ==
  IF BreaksNotNull(row) THEN table
  ELSE Append(SelectSeq(table, LAMBDA r : r.email # row.email), row)

\* INSERT OR IGNORE: the row is added unless it breaks a constraint
InsertOrIgnore(table, row) ==
  IF BreaksNotNull(row) \/ BreaksUnique(table, row) THEN table ELSE Append(table, row)

\* insertUser(user): the table afterwards, or what was thrown and the table
\* as it was
InsertUser(db, table, user) ==
  IF db = "null" THEN <<"throw", "Database not initialized", table>>
  ELSE IF IsNull(user) THEN <<"throw", "TypeError", table>>
  ELSE IF db = "bare" THEN <<"throw", NoSuchTable[2], table>>
  ELSE Ok(InsertOrIgnore(table, NewRow(table, user)))

\* the table an insert, done or thrown, leaves
TableAfter(r) == IF IsOk(r) THEN r[2] ELSE r[3]

RECURSIVE InsertEach(_, _, _, _)
\* for (const user of list) await this.insertUser(user), from the i-th on; r is
\* the outcome of the inserts before it
InsertEach(db, r, list, i) ==
  IF ~IsOk(r) \/ i > Len(list) THEN r
  ELSE InsertEach(db, InsertUser(db, r[2], list[i]), list, i + 1)

\* the object the two queries build from a row, given JSON.parse(allowed_areas)
UserOfRow(row, areas) ==
  IF ~IsOk(areas) THEN areas
  ELSE Ok(Obj(<< <<K_id, Num(row.id)>>, <<K_email, row.email>>, <<K_name, row.name>>,
                 <<K_phone, row.phone>>, <<K_access_level, row.access_level>>,
                 <<K_allowed_areas, areas[2]>>,
                 <<K_is_active, Bool(row.is_active = 1)>> >>))

RowToUser(row) == UserOfRow(row, JsonParse(row.allowed_areas))

\* every row, whatever its is_active
AllRows(table) == table

\* WHERE is_active = 1
ActiveRows(table) == SelectSeq(table, LAMBDA r : r.is_active = 1)

\* WHERE email = ?
RowsOf(rows, email) == SelectSeq(rows, LAMBDA r : Tag(email) = "string" /\ r.email = email)

\* if (result) { return {...} } return null
FirstUser(rows) == IF rows = <<>> THEN Ok(Null) ELSE RowToUser(rows[1])

\* getUserByEmail(email)
GetUserByEmail(db, table, email) ==
  IF db = "null" THEN NotInitialized
  ELSE IF db = "bare" THEN NoSuchTable
  ELSE FirstUser(RowsOf(ActiveRows(table), email))

\* results.map(row => ({...})): the array, or what JSON.parse threw
CollectUsers(us) ==
  IF \E i \in 1..Len(us) : ~IsOk(us[i]) THEN Throw("SyntaxError")
  ELSE Ok(Arr([i \in 1..Len(us) |-> us[i][2]]))

\* getAllUsers()
GetAllUsers(db, table) ==
  IF db = "null" THEN NotInitialized
  ELSE IF db = "bare" THEN NoSuchTable
  ELSE CollectUsers([i \in 1..Len(ActiveRows(table)) |-> RowToUser(ActiveRows(table)[i])])

\* the areas the demo records name
MainArena == <<77, 97, 105, 110, 32, 65, 114, 101, 110, 97>>
GeneralEntrance == <<71, 101, 110, 101, 114, 97, 108, 32, 69, 110, 116, 114, 97, 110,
                   99, 101>>
FoodCourt == <<70, 111, 111, 100, 32, 67, 111, 117, 114, 116>>
VipLounge == <<86, 73, 80, 32, 76, 111, 117, 110, 103, 101>>
StaffArea == <<83, 116, 97, 102, 102, 32, 65, 114, 101, 97>>
SecurityZone == <<83, 101, 99, 117, 114, 105, 116, 121, 32, 90, 111, 110, 101>>

\* one element of sampleUsers
SampleUser(email, name, phone, access_level, allowed_areas) ==
  Obj(<< <<K_email, Str(email)>>, <<K_name, Str(name)>>, <<K_phone, Str(phone)>>,
         <<K_access_level, Str(access_level)>>,
         <<K_allowed_areas, Arr([i \in 1..Len(allowed_areas) |-> Str(allowed_areas[i])])>>,
         <<K_is_active, Bool(TRUE)>> >>)

\* sampleUsers: the ten demo records, in the order they are listed
SampleUsers ==
  <<
    \* john.athlete@sports.com, John Athlete, +1234567890, General
    SampleUser(<<106, 111, 104, 110, 46, 97, 116, 104, 108, 101, 116, 101, 64, 115, 112,
               111, 114, 116, 115, 46, 99, 111, 109>>,
               <<74, 111, 104, 110, 32, 65, 116, 104, 108, 101, 116, 101>>,
               <<43, 49, 50, 51, 52, 53, 54, 55, 56, 57, 48>>,
               <<71, 101, 110, 101, 114, 97, 108>>,
               <<MainArena, GeneralEntrance, FoodCourt>>),
    \* sarah.vip@company.com, Sarah VIP Guest, +1234567891, VIP
    SampleUser(<<115, 97, 114, 97, 104, 46, 118, 105, 112, 64, 99, 111, 109, 112, 97,
               110, 121, 46, 99, 111, 109>>,
               <<83, 97, 114, 97, 104, 32, 86, 73, 80, 32, 71, 117, 101, 115, 116>>,
               <<43, 49, 50, 51, 52, 53, 54, 55, 56, 57, 49>>,
               <<86, 73, 80>>,
               <<MainArena, VipLounge, GeneralEntrance, FoodCourt>>),
    \* mike.staff@event.com, Mike Staff Member, +1234567892, Staff
    SampleUser(<<109, 105, 107, 101, 46, 115, 116, 97, 102, 102, 64, 101, 118, 101, 110,
               116, 46, 99, 111, 109>>,
               <<77, 105, 107, 101, 32, 83, 116, 97, 102, 102, 32, 77, 101, 109, 98,
               101, 114>>,
               <<43, 49, 50, 51, 52, 53, 54, 55, 56, 57, 50>>,
               <<83, 116, 97, 102, 102>>,
               <<MainArena, StaffArea, GeneralEntrance, FoodCourt>>),
    \* emma.security@event.com, Emma Security, +1234567893, Security
    SampleUser(<<101, 109, 109, 97, 46, 115, 101, 99, 117, 114, 105, 116, 121, 64, 101,
               118, 101, 110, 116, 46, 99, 111, 109>>,
               <<69, 109, 109, 97, 32, 83, 101, 99, 117, 114, 105, 116, 121>>,
               <<43, 49, 50, 51, 52, 53, 54, 55, 56, 57, 51>>,
               <<83, 101, 99, 117, 114, 105, 116, 121>>,
               <<MainArena, SecurityZone, StaffArea, GeneralEntrance>>),
    \* david.manager@event.com, David Manager, +1234567894, Management
    SampleUser(<<100, 97, 118, 105, 100, 46, 109, 97, 110, 97, 103, 101, 114, 64, 101,
               118, 101, 110, 116, 46, 99, 111, 109>>,
               <<68, 97, 118, 105, 100, 32, 77, 97, 110, 97, 103, 101, 114>>,
               <<43, 49, 50, 51, 52, 53, 54, 55, 56, 57, 52>>,
               <<77, 97, 110, 97, 103, 101, 109, 101, 110, 116>>,
               <<MainArena, VipLounge, SecurityZone, StaffArea, GeneralEntrance>>),
    \* lisa.coach@sports.com, Lisa Coach, +1234567895, Staff
    SampleUser(<<108, 105, 115, 97, 46, 99, 111, 97, 99, 104, 64, 115, 112, 111, 114,
               116, 115, 46, 99, 111, 109>>,
               <<76, 105, 115, 97, 32, 67, 111, 97, 99, 104>>,
               <<43, 49, 50, 51, 52, 53, 54, 55, 56, 57, 53>>,
               <<83, 116, 97, 102, 102>>,
               <<MainArena, StaffArea, GeneralEntrance>>),
    \* alex.media@news.com, Alex Media, +1234567896, General
    SampleUser(<<97, 108, 101, 120, 46, 109, 101, 100, 105, 97, 64, 110, 101, 119, 115,
               46, 99, 111, 109>>,
               <<65, 108, 101, 120, 32, 77, 101, 100, 105, 97>>,
               <<43, 49, 50, 51, 52, 53, 54, 55, 56, 57, 54>>,
               <<71, 101, 110, 101, 114, 97, 108>>,
               <<MainArena, GeneralEntrance>>),
    \* sophie.sponsor@corp.com, Sophie Sponsor, +1234567897, VIP
    SampleUser(<<115, 111, 112, 104, 105, 101, 46, 115, 112, 111, 110, 115, 111, 114,
               64, 99, 111, 114, 112, 46, 99, 111, 109>>,
               <<83, 111, 112, 104, 105, 101, 32, 83, 112, 111, 110, 115, 111, 114>>,
               <<43, 49, 50, 51, 52, 53, 54, 55, 56, 57, 55>>,
               <<86, 73, 80>>,
               <<MainArena, VipLounge, GeneralEntrance, FoodCourt>>),
    \* james.volunteer@event.com, James Volunteer, +1234567898, Staff
    SampleUser(<<106, 97, 109, 101, 115, 46, 118, 111, 108, 117, 110, 116, 101, 101,
               114, 64, 101, 118, 101, 110, 116, 46, 99, 111, 109>>,
               <<74, 97, 109, 101, 115, 32, 86, 111, 108, 117, 110, 116, 101, 101, 114>>,
               <<43, 49, 50, 51, 52, 53, 54, 55, 56, 57, 56>>,
               <<83, 116, 97, 102, 102>>,
               <<GeneralEntrance, FoodCourt>>),
    \* maria.official@sports.org, Maria Official, +1234567899, Management
    SampleUser(<<109, 97, 114, 105, 97, 46, 111, 102, 102, 105, 99, 105, 97, 108, 64,
               115, 112, 111, 114, 116, 115, 46, 111, 114, 103>>,
               <<77, 97, 114, 105, 97, 32, 79, 102, 102, 105, 99, 105, 97, 108>>,
               <<43, 49, 50, 51, 52, 53, 54, 55, 56, 57, 57>>,
               <<77, 97, 110, 97, 103, 101, 109, 101, 110, 116>>,
               <<MainArena, VipLounge, SecurityZone, StaffArea, GeneralEntrance>>)
  >>

\* JSON.parse(decryptedData), when decryptData returned
ParseDecrypted(r) == IF IsOk(r) THEN JsonParseText(r[2]) ELSE r

\* the catch clause of getEncryptedSeedData: whatever was thrown becomes null
OrNull(r) == IF IsOk(r) THEN r[2] ELSE Null

\* which calls on the native modules reject: openDatabaseAsync, and getItemAsync,
\* setItemAsync and deleteItemAsync of the secure store
Failure(open, get, set, del) == [open |-> open, get |-> get, set |-> set, del |-> del]

NoFailure == Failure(FALSE, FALSE, FALSE, FALSE)

\* getEncryptedSeedData(): the list the stored blob decodes to, or null; a
\* rejected getItemAsync is caught and gives null
GetEncryptedSeedData(store, io) ==
  IF io.get \/ Falsy(store.demo_users_seed) THEN Null
  ELSE OrNull(ParseDecrypted(DecryptData(ValOf(store.demo_users_seed))))

\* what seeding leaves behind: the table, the secure store, whether the blob
\* was written, and what was thrown to the caller ("" when nothing was)
Seeded(table, store, wrote, error) ==
  [users |-> table, store |-> store, wrote |-> wrote, error |-> error]

\* createAndStoreEncryptedSeedData with its loop of inserts left out
StoreWithoutInsert(db, table, store, encrypted, io) ==
  IF io.set \/ ~IsOk(encrypted) THEN Seeded(table, store, FALSE, "")
  ELSE Seeded(table, [store EXCEPT !.demo_users_seed = Str(encrypted[2])], TRUE, "")

\* the rest of createAndStoreEncryptedSeedData once encryptData has returned or
\* thrown; its catch clause swallows whatever is thrown, by encryptData, by
\* setItemAsync or by insertUser, and what follows the throw is not run
StoreAndInsert(db, table, store, encrypted, io) ==
  IF io.set \/ ~IsOk(encrypted) THEN Seeded(table, store, FALSE, "")
  ELSE Seeded(TableAfter(InsertEach(db, Ok(table), SampleUsers, 1)),
              [store EXCEPT !.demo_users_seed = Str(encrypted[2])], TRUE, "")

\* createAndStoreEncryptedSeedData() when the random salt is salt
CreateAndStoreEncryptedSeedData(db, table, store, salt, io) ==
  StoreAndInsert(db, table, store, EncryptData(JsonText(Arr(SampleUsers)), salt), io)

\* the outcome of inserting the stored list: what insertUser throws goes on
InsertedSeed(r, store) ==
  Seeded(TableAfter(r), store, FALSE, IF IsOk(r) THEN "" ELSE r[2])

\* seedData && seedData.length > 0
HasElements(seedData) ==
  ~Falsy(seedData) /\ Tag(seedData) \in {"array", "string"} /\ Len(ValOf(seedData)) > 0

\* the elements for ... of visits: those of an array, the characters of a string
ElementsOf(seedData) ==
  IF Tag(seedData) = "array" THEN ValOf(seedData)
  ELSE [i \in 1..Len(ValOf(seedData)) |-> Str(<<ValOf(seedData)[i]>>)]

\* seedSampleData() from its second statement on, the stored list not looked at
SeedAfresh(db, table, store, seedData, salt, io) ==
  CreateAndStoreEncryptedSeedData(db, table, store, salt, io)

\* seedSampleData() from its second statement on, given the stored list
SeedFrom(db, table, store, seedData, salt, io) ==
  IF HasElements(seedData)
  THEN InsertedSeed(InsertEach(db, Ok(table), ElementsOf(seedData), 1), store)
  ELSE CreateAndStoreEncryptedSeedData(db, table, store, salt, io)

\* seedSampleData() with its first two statements left out: the table is
\* seeded whatever it holds
SeedAlways(db, table, store, existing, salt, io) ==
  SeedFrom(db, table, store, GetEncryptedSeedData(store, io), salt, io)

\* seedSampleData() given what getAllUsers returned
SeedUnlessSeeded(db, table, store, existing, salt, io) ==
  IF ~IsOk(existing) THEN Seeded(table, store, FALSE, existing[2])
  ELSE IF Len(ValOf(existing[2])) > 0 THEN Seeded(table, store, FALSE, "")
  ELSE SeedFrom(db, table, store, GetEncryptedSeedData(store, io), salt, io)

\* seedSampleData() when the random salt is salt
SeedSampleData(db, table, store, salt, io) ==
  SeedUnlessSeeded(db, table, store, GetAllUsers(db, table), salt, io)

\* what a failed openDatabaseAsync leaves: nothing is touched and the error is
\* thrown on by the catch clause of initDatabase
OpenFailed(table, store) == Seeded(table, store, FALSE, "open failed")

\* initDatabase() once openDatabaseAsync has returned or rejected; createTables
\* leaves an existing table alone
InitDatabaseData(table, store, salt, io) ==
  IF io.open THEN OpenFailed(table, store)
  ELSE SeedSampleData("open", table, store, salt, io)

\* DELETE FROM users, through this.database?.execAsync: not run without a handle
DeleteAll(db, table) == IF db = "null" THEN table ELSE <<>>

\* resetDemoData() with its last statement left out
ResetWithoutSeed(db, table, store, salt, io) ==
  IF io.del THEN Seeded(DeleteAll(db, table), store, FALSE, "")
  ELSE Seeded(DeleteAll(db, table), [store EXCEPT !.demo_users_seed = Null], FALSE, "")

\* resetDemoData(): the rows are deleted, then the blob, then the demo list is
\* generated; a rejected deleteItemAsync ends it in its catch clause
ResetDemoData(db, table, store, salt, io) ==
  IF io.del THEN Seeded(DeleteAll(db, table), store, FALSE, "")
  ELSE CreateAndStoreEncryptedSeedData(db, DeleteAll(db, table),
                                       [store EXCEPT !.demo_users_seed = Null], salt, io)

(***************************************************************************)
(* The views derived from the users table                                  *)
(***************************************************************************)
\* the UTF-16 code units of a string, which Array.prototype.sort compares
Utf16Units(s) ==
  FlatAll([i \in 1..Len(s) |->
             IF s[i] < 65536 THEN <<s[i]>>
             ELSE <<55296 + ((s[i] - 65536) \div 1024), 56320 + ((s[i] - 65536) % 1024)>>])

\* a comes before b, unit by unit
LexLess(a, b) ==
  \E i \in 1..Len(b) :
    /\ \A k \in 1..(i - 1) : k <= Len(a) /\ a[k] = b[k]
    /\ (i > Len(a) \/ a[i] < b[i])

\* what sort() compares of an element: its string
SortKey(v) == Utf16Units(JsToString(v))

\* v behind the first k elements of acc
InsertedAt(acc, v, k) == SubSeq(acc, 1, k) \o <<v>> \o SubSeq(acc, k + 1, Len(acc))

\* acc is sorted: v goes behind the elements that do not come after it
Inserted(acc, v) ==
  InsertedAt(acc, v,
             Cardinality({j \in 1..Len(acc) : ~LexLess(SortKey(v), SortKey(acc[j]))}))

RECURSIVE SortFrom(_, _, _)
SortFrom(list, i, acc) ==
  IF i > Len(list) THEN acc ELSE SortFrom(list, i + 1, Inserted(acc, list[i]))

\* the list left in the order it has
Unsorted(list) == list

\* Array.prototype.sort() without a comparison function
Sort(list) == SortFrom(list, 1, <<>>)

\* the same value, as a Set tells: strings, numbers and booleans by value,
\* arrays and objects never (each parsed one is an object of its own)
SameValue(a, b) ==
  /\ Tag(a) = Tag(b)
  /\ Tag(a) \notin {"array", "object"}
  /\ a = b

RECURSIVE DistinctFrom(_, _, _)
DistinctFrom(list, i, acc) ==
  IF i > Len(list) THEN acc
  ELSE DistinctFrom(list, i + 1,
                    IF \E j \in 1..Len(acc) : SameValue(acc[j], list[i]) THEN acc
                    ELSE Append(acc, list[i]))

\* [...new Set(list)]: the first of each value, in the order of the list
Distinct(list) == DistinctFrom(list, 1, <<>>)

\* ['General', 'Staff', 'VIP', 'Security', 'Management']
FallbackLevels ==
  Arr(<<Str(<<71, 101, 110, 101, 114, 97, 108>>), Str(<<83, 116, 97, 102, 102>>),
        Str(<<86, 73, 80>>), Str(<<83, 101, 99, 117, 114, 105, 116, 121>>),
        Str(<<77, 97, 110, 97, 103, 101, 109, 101, 110, 116>>)>>)

\* ['Main Arena', 'VIP Lounge', 'Staff Area', 'Security Zone',
\*  'General Entrance', 'Food Court']
FallbackAreas ==
  Arr(<<Str(MainArena), Str(VipLounge), Str(StaffArea), Str(SecurityZone),
        Str(GeneralEntrance), Str(FoodCourt)>>)

\* users.map(user => user.access_level)
LevelsOf(us) == [i \in 1..Len(us) |-> GetProp(us[i], K_access_level)]

\* what flatMap takes from one user: the elements of an array, or the value
AreasOfUser(u) ==
  IF Tag(GetProp(u, K_allowed_areas)) = "array" THEN ValOf(GetProp(u, K_allowed_areas))
  ELSE <<GetProp(u, K_allowed_areas)>>

\* users.flatMap(user => user.allowed_areas)
AreasOf(us) == FlatAll([i \in 1..Len(us) |-> AreasOfUser(us[i])])

\* getAvailableAccessLevels() given what getAllUsers returned
LevelsOrFallback(all) ==
  IF IsOk(all) THEN Ok(Arr(Sort(Distinct(LevelsOf(ValOf(all[2])))))) ELSE Ok(FallbackLevels)

\* getAvailableAccessLevels()
GetAvailableAccessLevels(db, table) == LevelsOrFallback(GetAllUsers(db, table))

\* getAvailableAreas() given what getAllUsers returned
AreasOrFallback(all) ==
  IF IsOk(all) THEN Ok(Arr(Sort(Distinct(AreasOf(ValOf(all[2])))))) ELSE Ok(FallbackAreas)

\* getAvailableAreas()
GetAvailableAreas(db, table) == AreasOrFallback(GetAllUsers(db, table))

(***************************************************************************)
(* Session bookkeeping in the secure store                                 *)
(***************************************************************************)
\* white space and line terminators, which trim() and parseInt() skip
IsJsSpace(c) ==
  \/ c \in {9, 10, 11, 12, 13, 32, 160, 5760, 8232, 8233, 8239, 8287, 12288, 65279}
  \/ (c >= 8192 /\ c <= 8202)

RECURSIVE SkipSpace(_, _)
SkipSpace(s, i) == IF i <= Len(s) /\ IsJsSpace(s[i]) THEN SkipSpace(s, i + 1) ELSE i

RECURSIVE SkipSpaceBack(_, _)
SkipSpaceBack(s, i) == IF i >= 1 /\ IsJsSpace(s[i]) THEN SkipSpaceBack(s, i - 1) ELSE i

\* String.prototype.trim
Trim(s) == SubSeq(s, SkipSpace(s, 1), SkipSpaceBack(s, Len(s)))

\* the lower case of one character: A to Z and the capital letters of Latin-1
\* (other scripts are outside the model)
LowerChar(c) ==
  IF (c >= 65 /\ c <= 90) \/ (c >= 192 /\ c <= 222 /\ c # 215) THEN c + 32 ELSE c

\* String.prototype.toLowerCase
ToLowerCase(s) == SubSeq([i \in 1..Len(s) |-> LowerChar(s[i])], 1, Len(s))

RECURSIVE ParseHex(_, _, _)
ParseHex(t, i, acc) ==
  IF HexVal(At(t, i)) >= 0 THEN ParseHex(t, i + 1, acc * 16 + HexVal(t[i])) ELSE <<acc, i>>

\* r is <<digits read, next index>> of the digits looked for at d: NaN when
\* there was none, and whatever follows the digits is ignored
IntRead(neg, r, d) == IF r[2] = d THEN NaN ELSE Num(IF neg THEN -r[1] ELSE r[1])

\* the digits at d: hexadecimal after 0x or 0X, decimal otherwise
IntAt(s, neg, d) ==
  IF At(s, d) = 48 /\ At(s, d + 1) \in {120, 88}
  THEN IntRead(neg, ParseHex(s, d + 2, 0), d + 2)
  ELSE IntRead(neg, ParseNat(s, d, 0), d)

SignedIntAt(s, lo) == IntAt(s, At(s, lo) = 45, IF At(s, lo) \in {43, 45} THEN lo + 1 ELSE lo)

\* parseInt(s) of a string, no radix given
ParseInt(s) == SignedIntAt(s, SkipSpace(s, 1))

\* x < y of numbers: false as soon as a side is NaN
NumLess(x, y) == x # NaN /\ y # NaN /\ ValOf(x) < ValOf(y)

\* const oneDay = 24 * 60 * 60 * 1000
OneDay == 24 * 60 * 60 * 1000

\* what a bookkeeping call leaves: the secure store, and what it returned
Kept(store, result) == [store |-> store, result |-> result]

\* storeUserCredentials(email, rememberMe) at time now
StoreUserCredentials(store, email, rememberMe, now, io) ==
  IF ~rememberMe \/ io.set THEN Kept(store, Ok(Undefined))
  ELSE Kept([store EXCEPT !.rememberedEmail = Str(email),
                          !.lastLoginTime = Str(NumText(now))], Ok(Undefined))

\* getStoredEmail() without its catch clause
GetStoredEmailNoCatch(store, io) ==
  IF io.get THEN Throw("SecureStore") ELSE Ok(store.rememberedEmail)

\* getStoredEmail()
GetStoredEmail(store, io) == IF io.get THEN Ok(Null) ELSE Ok(store.rememberedEmail)

\* clearStoredCredentials() with its two deletions left out
ClearNothing(store, io) == Kept(store, Ok(Undefined))

\* clearStoredCredentials()
ClearStoredCredentials(store, io) ==
  IF io.del THEN Kept(store, Ok(Undefined))
  ELSE Kept([store EXCEPT !.rememberedEmail = Null, !.lastLoginTime = Null], Ok(Undefined))

\* return timeElapsed < oneDay
RecentEnough(now, lastLogin) == Bool(NumLess(NumMinus(Num(now), lastLogin), Num(OneDay)))

\* isLoginRecent() at time now
IsLoginRecent(store, now, io) ==
  IF io.get \/ Falsy(store.lastLoginTime) THEN Ok(Bool(FALSE))
  ELSE Ok(RecentEnough(now, ParseInt(JsToString(store.lastLoginTime))))

\* storeUserToken(token)
StoreUserToken(store, token, io) ==
  IF io.set THEN Kept(store, Ok(Undefined))
  ELSE Kept([store EXCEPT !.userToken = Str(token)], Ok(Undefined))

\* getUserToken()
GetUserToken(store, io) == IF io.get THEN Ok(Null) ELSE Ok(store.userToken)

\* clearUserToken()
ClearUserToken(store, io) ==
  IF io.del THEN Kept(store, Ok(Undefined))
  ELSE Kept([store EXCEPT !.userToken = Null], Ok(Undefined))

(***************************************************************************)
(* Issuing and scanning tokens                                             *)
(***************************************************************************)
\* how often the clock advances in one behaviour
MaxTicks == 2

\* the steps the clock advances by: a millisecond, the expiry, the hard window
TickSteps == {1, ExpiryMs, MaxAgeMs}

\* the milliseconds that pass while verifyQRData awaits the signature digest
DigestDelays == {0, 1}

\* users as getUserByEmail returns them: name A"\é, areas M and V L; and B
QrUsers ==
  { [id |-> 1, email |-> <<97, 64, 120>>, name |-> <<65, 34, 92, 233>>,
     phone |-> <<43, 49>>, access_level |-> <<86, 73, 80>>,
     allowed_areas |-> << <<77>>, <<86, 32, 76>> >>, is_active |-> TRUE],
    [id |-> 2, email |-> <<98, 64, 120>>, name |-> <<66>>,
     phone |-> <<43, 50>>, access_level |-> <<71>>,
     allowed_areas |-> <<>>, is_active |-> TRUE] }

NoUser == [id |-> 0, email |-> <<>>, name |-> <<>>, phone |-> <<>>,
           access_level |-> <<>>, allowed_areas |-> <<>>, is_active |-> FALSE]

\* a device that reports nothing, and one with an empty name: b1, '', 14
Devices ==
  { [osInternalBuildId |-> Null, deviceName |-> Null, osVersion |-> Null],
    [osInternalBuildId |-> Str(<<98, 49>>), deviceName |-> Str(<<>>),
     osVersion |-> Str(<<49, 52>>)] }

\* the three fields of an envelope; undefined stands for a field that is absent
Envelope(data, signature, timestamp) ==
  [data |-> data, signature |-> signature, timestamp |-> timestamp]

NoEnvelope == Envelope(Undefined, Undefined, Undefined)

\* the text in front of the scanner: its kind ("none", "issued", "envelope" or
\* "text"), the envelope it was written from, when and for whom it was issued,
\* and the expires_at of the payload it carries
Token(kind, text, env, at, user, exp) ==
  [kind |-> kind, text |-> text, env |-> env, at |-> at, user |-> user, exp |-> exp]

NoToken == Token("none", <<>>, NoEnvelope, 0, NoUser, Undefined)
NoScan  == [kind |-> "none", input |-> <<>>, env |-> NoEnvelope, at |-> 0,
            later |-> 0, result |-> <<"none", 0>>]

\* the envelope fields of a token text, as a scanner reads them
EnvelopeOf(text) ==
  LET parsed == JsonParseText(text)[2]
  IN Envelope(GetProp(parsed, K_data), GetProp(parsed, K_signature),
              GetProp(parsed, K_timestamp))

EnvelopeText(env) == JsonText(SecurePayload(env.data, env.signature, env.timestamp))

\* one call of verifyQRData(text) that starts at clock and reads the clock
\* again d milliseconds later
Scanned(kind, text, env, d) ==
  [kind |-> kind, input |-> text, env |-> env, at |-> clock, later |-> clock + d,
   result |-> VerifyQRData(text, clock, clock + d)]

\* the strings a tamperer puts in place of the issued data: the payload of
\* another user or of a later time, the issued payload with a space appended
\* or its last character dropped, and the text x
TamperedData(token) ==
  IF token.kind # "issued" THEN {}
  ELSE ({JsonText(QrPayload(u, device, token.at)) : u \in QrUsers}
          \cup {JsonText(QrPayload(token.user, device, token.at + MaxAgeMs)),
                ValOf(token.env.data) \o <<32>>,
                SubSeq(ValOf(token.env.data), 1, Len(ValOf(token.env.data)) - 1),
                <<120>>})
         \ {ValOf(token.env.data)}

IssuedToken(u, dev, now) ==
  Token("issued", GenerateSecureQRData(u, dev, now),
        EnvelopeOf(GenerateSecureQRData(u, dev, now)), now, u, Num(now + ExpiryMs))

NoText == <<"none", 0>>
NoObf  == [stage |-> "none", plain |-> <<>>, salt |-> <<>>, blob |-> NoText,
           out |-> NoText]
NoOp   == [name |-> "none", arg |-> Undefined, result |-> NoText, io |-> NoFailure]

\* a secure store with nothing in it
EmptyStore ==
  [demo_users_seed |-> Null, rememberedEmail |-> Null, lastLoginTime |-> Null,
   userToken |-> Null]

\* the parts of the state a behaviour leaves alone
QrAtRest ==
  /\ clock = 1
  /\ ticks = 0
  /\ device = [osInternalBuildId |-> Null, deviceName |-> Null, osVersion |-> Null]
  /\ qr = NoToken
  /\ scan = NoScan

ObfAtRest == obf = NoObf

StoreAtRest ==
  /\ database = "null"
  /\ users = <<>>
  /\ secureStore = EmptyStore
  /\ seedWrites = 0
  /\ op = NoOp

\* the context before any screen has set a user, and the login form as it is
\* first rendered: useState(''), useState(false); effect is "pending" while the
\* useEffect of a login screen that was mounted has not run
NoApp == [user |-> Undefined, route |-> "index", email |-> <<>>, rememberMe |-> FALSE,
          alert |-> "", effect |-> "none"]

\* no call in flight
NoCalls == <<>>

AppAtRest ==
  /\ app = NoApp
  /\ calls = NoCalls

InitQR ==
  /\ clock = 1
  /\ ticks = 0
  /\ device \in Devices
  /\ qr = NoToken
  /\ scan = NoScan
  /\ ObfAtRest
  /\ StoreAtRest
  /\ AppAtRest

\* time passes
Tick(d) ==
  /\ scan = NoScan
  /\ ticks < MaxTicks
  /\ clock' = clock + d
  /\ ticks' = ticks + 1
  /\ UNCHANGED <<device, qr, scan, obfVars, storeVars, appVars>>

\* the QR screen asks for a token for the logged-in user
IssueToken(u) ==
  /\ scan = NoScan
  /\ qr' = IssuedToken(u, device, clock)
  /\ UNCHANGED <<clock, ticks, device, scan, obfVars, storeVars, appVars>>

\* the issued token is scanned as it is
VerifyIssued(d) ==
  /\ scan = NoScan
  /\ qr.kind = "issued"
  /\ scan' = Scanned("issued", qr.text, qr.env, d)
  /\ clock' = clock + d
  /\ UNCHANGED <<ticks, device, qr, obfVars, storeVars, appVars>>

\* the issued token is scanned with its data replaced, signature and timestamp kept
VerifyTampered(data, d) ==
  /\ scan = NoScan
  /\ qr.kind = "issued"
  /\ scan' = Scanned("tampered", EnvelopeText([qr.env EXCEPT !.data = Str(data)]),
                     [qr.env EXCEPT !.data = Str(data)], d)
  /\ clock' = clock + d
  /\ UNCHANGED <<ticks, device, qr, obfVars, storeVars, appVars>>

\* the envelopes made from the issued one by rewriting fields and keeping the
\* rest: the timestamp set to the present, the signature replaced by 00, the
\* data by the payload of a day later
AlteredEnvelopes(token) ==
  IF token.kind # "issued" THEN {}
  ELSE {Envelope(data, signature, timestamp) :
          data \in {token.env.data,
                    Str(JsonText(QrPayload(token.user, device, token.at + MaxAgeMs)))},
          signature \in {token.env.signature, Str(<<48, 48>>)},
          timestamp \in {token.env.timestamp, Num(clock)}}
         \ {token.env}

\* the issued token is scanned with envelope fields rewritten
VerifyAltered(env, d) ==
  /\ scan = NoScan
  /\ qr.kind = "issued"
  /\ scan' = Scanned("altered", EnvelopeText(env), env, d)
  /\ clock' = clock + d
  /\ UNCHANGED <<ticks, device, qr, obfVars, storeVars, appVars>>

NextQR ==
  \/ \E d \in TickSteps : Tick(d)
  \/ \E u \in QrUsers : IssueToken(u)
  \/ \E d \in DigestDelays : VerifyIssued(d)
  \/ \E data \in TamperedData(qr), d \in DigestDelays : VerifyTampered(data, d)
  \/ \E env \in AlteredEnvelopes(qr), d \in DigestDelays : VerifyAltered(env, d)

SpecQR == InitQR /\ [][NextQR]_vars

(***************************************************************************)
(* Scanning arbitrary texts                                                *)
(***************************************************************************)
\* the times at which a text is scanned
ScanTimes == {ExpiryMs, 2 * MaxAgeMs}

\* the secret, as whoever writes an envelope by hand reads it in the bundle
ForgedSignature(data) == Str(Digest(JsToString(data) \o SignSecret))

\* the expires_at values of hand-written payloads: just passed, now, not yet
\* reached, zero, absent, null, a string of digits, the string x
ExpiresAts(now) ==
  {Num(now - 1), Num(now), Num(now + 1), Num(0), Undefined, Null,
   Str(NumText(now - 1)), Str(<<120>>)}

\* a hand-written inner payload
ForgedPayload(exp) == Obj(<< <<K_user_id, Num(1)>>, <<K_expires_at, exp>> >>)

\* data fields that are no payload: the strings '', x, null and 5, the
\* number 5, null, an object, an array, and no data field at all
OddDatas ==
  {Str(<<>>), Str(<<120>>), Str(<<110, 117, 108, 108>>), Str(<<53>>), Num(5), Null,
   Obj(<<>>), Arr(<<>>), Undefined}

\* signature fields: the one that matches the data, 00, '', a number, none
Signatures(data) ==
  {ForgedSignature(data), Str(<<48, 48>>), Str(<<>>), Num(7), Undefined}

\* timestamp fields: now, exactly 24 hours ago, a millisecond more than that,
\* zero, a millisecond ahead, that old time as a string of digits, none, null, x
Timestamps(now) ==
  {Num(now), Num(now - MaxAgeMs), Num(now - MaxAgeMs - 1), Num(0), Num(now + 1),
   Str(NumText(now - MaxAgeMs - 1)), Undefined, Null, Str(<<120>>)}

\* texts that are no envelope: '', x, null, 5, "s", [], {}, true, {"data":
OddTexts ==
  {<<>>, <<120>>, <<110, 117, 108, 108>>, <<53>>, <<34, 115, 34>>, <<91, 93>>,
   <<123, 125>>, <<116, 114, 117, 101>>, <<123, 34, 100, 97, 116, 97, 34, 58>>}

EnvelopeToken(env, exp) == Token("envelope", EnvelopeText(env), env, 0, NoUser, exp)

\* the envelopes written around one data field at time now
EnvelopesOf(data, exp, now) ==
  {EnvelopeToken(Envelope(data, sig, ts), exp) :
     sig \in Signatures(data), ts \in Timestamps(now)}

\* everything the scanner may be shown at time now
ScanInputs(now) ==
  UNION {EnvelopesOf(Str(JsonText(ForgedPayload(exp))), exp, now) :
           exp \in ExpiresAts(now)}
    \cup UNION {EnvelopesOf(data, Undefined, now) : data \in OddDatas}
    \cup {Token("text", t, NoEnvelope, 0, NoUser, Undefined) : t \in OddTexts}

InitScan ==
  /\ clock \in ScanTimes
  /\ ticks = 0
  /\ device \in Devices
  /\ qr \in ScanInputs(clock)
  /\ scan = NoScan
  /\ ObfAtRest
  /\ StoreAtRest
  /\ AppAtRest

\* the QR scanner passes the text it read to verifyQRData
Scan(d) ==
  /\ scan = NoScan
  /\ scan' = Scanned(qr.kind, qr.text, qr.env, d)
  /\ clock' = clock + d
  /\ UNCHANGED <<ticks, device, qr, obfVars, storeVars, appVars>>

NextScan == \E d \in DigestDelays : Scan(d)

SpecScan == InitScan /\ [][NextScan]_vars

(***************************************************************************)
(* A string through encryptData and decryptData                            *)
(***************************************************************************)
\* what getRandomBytesAsync(16) may return: sixteen bytes
Salts ==
  {[i \in 1..16 |-> 0], [i \in 1..16 |-> 255], [i \in 1..16 |-> i],
   [i \in 1..16 |-> (i * 37) % 256]}

\* the salts drawn while seeding
SeedSalts == {[i \in 1..16 |-> 0], [i \in 1..16 |-> i]}

\* the key fragment encryptData appends when the salt is all zeros
ZeroKey == KeyFragment(Btoa([i \in 1..16 |-> 0])[2])

\* the strings given to encryptData: '', a, b, :, a:, ::, a::b, ::::, h e-acute
\* euro-sign grinning-face, a :: followed by the key fragment of the zero salt
\* (alone, after a and before b, cut one character short, and after a single
\* colon), that key fragment alone, the demo list as JSON, and a followed by
\* half of a surrogate pair
Plaintexts ==
  {<<>>, <<97>>, <<98>>, <<58>>, <<97, 58>>, <<58, 58>>, <<97, 58, 58, 98>>,
   <<58, 58, 58, 58>>, <<104, 233, 8364, 128512>>,
   Separator \o ZeroKey,
   <<97>> \o Separator \o ZeroKey \o <<98>>,
   <<97>> \o Separator \o SubSeq(ZeroKey, 1, 31),
   <<97, 58>> \o ZeroKey,
   ZeroKey,
   JsonText(Arr(SampleUsers)),
   <<97, 55357>>}

InitObf ==
  /\ obf \in {[NoObf EXCEPT !.stage = "plain", !.plain = p] : p \in Plaintexts}
  /\ QrAtRest
  /\ StoreAtRest
  /\ AppAtRest

\* encryptData(obf.plain) draws its salt and returns or throws
Encrypt(salt) ==
  /\ obf.stage = "plain"
  /\ obf' = [obf EXCEPT !.stage = IF IsOk(EncryptData(obf.plain, salt))
                                   THEN "encrypted" ELSE "failed",
                        !.salt = salt,
                        !.blob = EncryptData(obf.plain, salt)]
  /\ UNCHANGED <<qrVars, storeVars, appVars>>

\* decryptData is called on what encryptData returned
Decrypt ==
  /\ obf.stage = "encrypted"
  /\ obf' = [obf EXCEPT !.stage = "decrypted", !.out = DecryptData(obf.blob[2])]
  /\ UNCHANGED <<qrVars, storeVars, appVars>>

NextObf ==
  \/ \E salt \in Salts : Encrypt(salt)
  \/ Decrypt

SpecObf == InitObf /\ [][NextObf]_vars

(***************************************************************************)
(* The database service at work                                            *)
(***************************************************************************)
\* a record of the shape insertUser takes
UserRecord(email, name, is_active) ==
  Obj(<< <<K_email, Str(email)>>, <<K_name, Str(name)>>, <<K_phone, Str(<<43, 49>>)>>,
         <<K_access_level, Str(<<71>>)>>,
         <<K_allowed_areas, Arr(<<Str(<<71>>)>>)>>,
         <<K_is_active, Bool(is_active)>> >>)

\* the records insertUser is called with besides the seed: a@x named A, active;
\* a@x named B, inactive; b@x named B, inactive
InsertInputs ==
  {UserRecord(<<97, 64, 120>>, <<65>>, TRUE),
   UserRecord(<<97, 64, 120>>, <<66>>, FALSE),
   UserRecord(<<98, 64, 120>>, <<66>>, FALSE)}

\* the emails looked up: a@x, b@x, nobody@x and john.athlete@sports.com
LookupEmails ==
  {Str(<<97, 64, 120>>), Str(<<98, 64, 120>>),
   Str(<<110, 111, 98, 111, 100, 121, 64, 120>>),
   Str(<<106, 111, 104, 110, 46, 97, 116, 104, 108, 101, 116, 101, 64, 115, 112, 111,
         114, 116, 115, 46, 99, 111, 109>>)}

\* the secure stores a first launch may find: nothing, or the blob an earlier
\* installation stored, which the keychain has kept
FoundStores ==
  {EmptyStore}
    \cup {[EmptyStore EXCEPT
             !.demo_users_seed = Str(EncryptData(JsonText(Arr(SampleUsers)), salt)[2])] :
            salt \in SeedSalts}

Called(name, arg, result) ==
  [name |-> name, arg |-> arg, result |-> result, io |-> NoFailure]

\* a call during which the native modules rejected as io says
CalledWith(name, result, io) == [name |-> name, arg |-> Undefined, result |-> result, io |-> io]

InitStore ==
  /\ database = "null"
  /\ users = <<>>
  /\ secureStore \in FoundStores
  /\ seedWrites = 0
  /\ op = NoOp
  /\ QrAtRest
  /\ ObfAtRest
  /\ AppAtRest

\* the application is closed and launched again: the handle is gone, the
\* database file and the secure store stay
Relaunch ==
  /\ database = "open"
  /\ database' = "null"
  /\ op' = Called("relaunch", Undefined, NoText)
  /\ UNCHANGED <<users, secureStore, seedWrites, qrVars, obfVars, appVars>>

\* what the call returned that left seeded behind
Outcome(seeded) == IF seeded.error = "" THEN Ok(Undefined) ELSE Throw(seeded.error)

\* initDatabase(): the handle is opened, the table created if it is not there,
\* and seedSampleData run; salt is what the random source would give, io what
\* the native modules reject
InitDatabaseWith(salt, io) ==
  \E seeded \in {InitDatabaseData(users, secureStore, salt, io)} :
    /\ database' = IF io.open THEN database ELSE "open"
    /\ users' = seeded.users
    /\ secureStore' = seeded.store
    /\ seedWrites' = seedWrites + (IF seeded.wrote THEN 1 ELSE 0)
    /\ op' = CalledWith("initDatabase", Outcome(seeded), io)
    /\ UNCHANGED <<qrVars, obfVars, appVars>>

\* initDatabase() when no native module rejects
InitDatabase(salt) == InitDatabaseWith(salt, NoFailure)

\* insertUser(user)
InsertUserCall(user) ==
  /\ users' = TableAfter(InsertUser(database, users, user))
  /\ op' = Called("insertUser", user,
                  IF IsOk(InsertUser(database, users, user)) THEN Ok(Undefined)
                  ELSE Throw(InsertUser(database, users, user)[2]))
  /\ UNCHANGED <<database, secureStore, seedWrites, qrVars, obfVars, appVars>>

\* getUserByEmail(email)
GetUserByEmailCall(email) ==
  /\ op' = Called("getUserByEmail", email, GetUserByEmail(database, users, email))
  /\ UNCHANGED <<database, users, secureStore, seedWrites, qrVars, obfVars, appVars>>

\* getAllUsers()
GetAllUsersCall ==
  /\ op' = Called("getAllUsers", Undefined, GetAllUsers(database, users))
  /\ UNCHANGED <<database, users, secureStore, seedWrites, qrVars, obfVars, appVars>>

\* getAvailableAccessLevels()
GetAvailableAccessLevelsCall ==
  /\ op' = Called("getAvailableAccessLevels", Undefined,
                  GetAvailableAccessLevels(database, users))
  /\ UNCHANGED <<database, users, secureStore, seedWrites, qrVars, obfVars, appVars>>

\* getAvailableAreas()
GetAvailableAreasCall ==
  /\ op' = Called("getAvailableAreas", Undefined, GetAvailableAreas(database, users))
  /\ UNCHANGED <<database, users, secureStore, seedWrites, qrVars, obfVars, appVars>>

NextStore ==
  \/ Relaunch
  \/ \E salt \in SeedSalts : InitDatabase(salt)
  \/ \E user \in InsertInputs : InsertUserCall(user)
  \/ \E email \in LookupEmails : GetUserByEmailCall(email)
  \/ GetAllUsersCall
  \/ GetAvailableAccessLevelsCall
  \/ GetAvailableAreasCall

SpecStore == InitStore /\ [][NextStore]_vars

(***************************************************************************)
(* The database service when the native modules reject                     *)
(***************************************************************************)
\* how often the seed blob is written in one behaviour
MaxSeedWrites == 2

\* what may go wrong during initDatabase: nothing, the database cannot be
\* opened, the blob cannot be read, cannot be written, neither read nor written
InitFailures ==
  {NoFailure, Failure(TRUE, FALSE, FALSE, FALSE), Failure(FALSE, TRUE, FALSE, FALSE),
   Failure(FALSE, FALSE, TRUE, FALSE), Failure(FALSE, TRUE, TRUE, FALSE)}

\* what may go wrong during resetDemoData: nothing, the blob cannot be
\* deleted, cannot be written
ResetFailures ==
  {NoFailure, Failure(FALSE, FALSE, FALSE, TRUE), Failure(FALSE, FALSE, TRUE, FALSE)}

\* a record that is in no demo list, as an earlier version of the application
\* may have left it in the database file: z@x, active
StrayUser == UserRecord(<<122, 64, 120>>, <<90>>, TRUE)

InitIO ==
  /\ database = "null"
  /\ users = <<>>
  /\ secureStore \in FoundStores
  /\ seedWrites = 0
  /\ op = NoOp
  /\ QrAtRest
  /\ ObfAtRest
  /\ AppAtRest

\* the root layout calls initDatabase() at launch
LaunchIO(salt, io) ==
  /\ database = "null"
  /\ seedWrites < MaxSeedWrites
  /\ InitDatabaseWith(salt, io)

\* initDatabase() is called again in the same process
InitAgainIO(salt, io) ==
  /\ database = "open"
  /\ seedWrites < MaxSeedWrites
  /\ InitDatabaseWith(salt, io)

\* the login screen lists the demo users, and Reset is pressed in the dialog
\* that is shown when the list is not empty: resetDemoData()
ResetDemoDataCall(salt, io) ==
  /\ seedWrites < MaxSeedWrites
  /\ ActiveRows(users) # <<>>
  /\ IsOk(GetAllUsers(database, users))
  /\ \E seeded \in {ResetDemoData(database, users, secureStore, salt, io)} :
       /\ users' = seeded.users
       /\ secureStore' = seeded.store
       /\ seedWrites' = seedWrites + (IF seeded.wrote THEN 1 ELSE 0)
       /\ op' = CalledWith("resetDemoData", Outcome(seeded), io)
       /\ UNCHANGED <<database, qrVars, obfVars, appVars>>

\* a row that is in no demo list gets into the table
InsertStray ==
  /\ database = "open"
  /\ InsertUserCall(StrayUser)

NextIO ==
  \/ Relaunch
  \/ \E salt \in SeedSalts, io \in InitFailures : LaunchIO(salt, io)
  \/ \E salt \in SeedSalts, io \in InitFailures : InitAgainIO(salt, io)
  \/ \E salt \in SeedSalts, io \in ResetFailures : ResetDemoDataCall(salt, io)
  \/ InsertStray
  \/ GetAllUsersCall

SpecIO == InitIO /\ [][NextIO]_vars

(***************************************************************************)
(* Session bookkeeping calls, with the secure store rejecting or not       *)
(***************************************************************************)
\* what may go wrong during a bookkeeping call: nothing, a rejected read, a
\* rejected write, a rejected deletion, or the secure store out of reach
KeyFailures ==
  {NoFailure, Failure(FALSE, TRUE, FALSE, FALSE), Failure(FALSE, FALSE, TRUE, FALSE),
   Failure(FALSE, FALSE, FALSE, TRUE), Failure(FALSE, TRUE, TRUE, TRUE)}

\* the emails that are remembered: a@x and b@x
KeyEmails == {<<97, 64, 120>>, <<98, 64, 120>>}

\* the session tokens that are stored: t
KeyTokens == {<<116>>}

InitKeys ==
  /\ QrAtRest
  /\ ObfAtRest
  /\ StoreAtRest
  /\ AppAtRest

\* a bookkeeping call that leaves kept behind
KeysCall(name, kept, io) ==
  /\ secureStore' = kept.store
  /\ op' = CalledWith(name, kept.result, io)
  /\ UNCHANGED <<database, users, seedWrites, qrVars, obfVars, appVars>>

StoreUserCredentialsCall(email, rememberMe, io) ==
  KeysCall("storeUserCredentials",
           StoreUserCredentials(secureStore, email, rememberMe, clock, io), io)

GetStoredEmailCall(io) ==
  KeysCall("getStoredEmail", Kept(secureStore, GetStoredEmail(secureStore, io)), io)

ClearStoredCredentialsCall(io) ==
  KeysCall("clearStoredCredentials", ClearStoredCredentials(secureStore, io), io)

IsLoginRecentCall(io) ==
  KeysCall("isLoginRecent", Kept(secureStore, IsLoginRecent(secureStore, clock, io)), io)

StoreUserTokenCall(token, io) ==
  KeysCall("storeUserToken", StoreUserToken(secureStore, token, io), io)

GetUserTokenCall(io) ==
  KeysCall("getUserToken", Kept(secureStore, GetUserToken(secureStore, io)), io)

ClearUserTokenCall(io) ==
  KeysCall("clearUserToken", ClearUserToken(secureStore, io), io)

NextKeys ==
  \/ \E d \in TickSteps : Tick(d)
  \/ \E email \in KeyEmails, rememberMe \in BOOLEAN, io \in KeyFailures :
       StoreUserCredentialsCall(email, rememberMe, io)
  \/ \E io \in KeyFailures : GetStoredEmailCall(io)
  \/ \E io \in KeyFailures : ClearStoredCredentialsCall(io)
  \/ \E io \in KeyFailures : IsLoginRecentCall(io)
  \/ \E token \in KeyTokens, io \in KeyFailures : StoreUserTokenCall(token, io)
  \/ \E io \in KeyFailures : GetUserTokenCall(io)
  \/ \E io \in KeyFailures : ClearUserTokenCall(io)

SpecKeys == InitKeys /\ [][NextKeys]_vars

(***************************************************************************)
(* Calls in flight: initDatabase and resetDemoData, await by await         *)
(***************************************************************************)
\* a call that has not been made: no function, no position, no locals
Idle == [fn |-> "none", pc |-> "idle", seedData |-> Null, i |-> 0, encrypted |-> NoText,
         email |-> <<>>, rememberMe |-> FALSE, found |-> Null, result |-> NoText]

\* a call of fn about to run its first statement, which awaits at pc
Entered(fn, pc) == [Idle EXCEPT !.fn = fn, !.pc = pc]

\* the call has returned or thrown result
Finished(frame, result) == [frame EXCEPT !.pc = "done", !.result = result]

\* the blob encryptData makes of the demo list when the random salt is 1 to 16
SampleBlobs == {EncryptData(JsonText(Arr(SampleUsers)), [i \in 1..16 |-> i])}

\* the secure store as a launch may find it: empty, or holding such a blob
RaceStores ==
  {EmptyStore} \cup {[EmptyStore EXCEPT !.demo_users_seed = Str(encrypted[2])] :
                       encrypted \in SampleBlobs}

\* the table as a launch finds it after an earlier launch seeded it
SeededTable == TableAfter(InsertEach("open", Ok(<<>>), SampleUsers, 1))

\* what openDatabaseAsync and the assignment to this.database leave: a file
\* with rows has the table, an empty one may be new
Opened(db, table) ==
  IF db # "null" THEN {db} ELSE IF table # <<>> THEN {"open"} ELSE {"bare", "open"}

\* the calls the root layout and the demo dialog make
Resetters == {"reset"}
RaceCallers == {"setupApp"} \cup Resetters

\* caller c is suspended at the await named pc
Awaits(c, pc) == c \in DOMAIN calls /\ calls[c].pc = pc

\* c moves on to the await named pc
Goto(c, pc) == calls' = [calls EXCEPT ![c].pc = pc]

\* c returns or throws: the call is over
Return(c, result) ==
  /\ calls' = [calls EXCEPT ![c] = Finished(calls[c], result)]
  /\ op' = Called(calls[c].fn, Undefined, result)

\* setupApp() of the root layout calls initDatabase()
Launch ==
  /\ Awaits("setupApp", "idle")
  /\ calls' = [calls EXCEPT !["setupApp"] = Entered("initDatabase", "open")]
  /\ UNCHANGED <<storeVars, qrVars, obfVars, app>>

\* Reset is pressed in the dialog the login screen shows when getDemoUsers
\* returned a list that is not empty: resetDemoData()
PressReset(c) ==
  /\ Awaits(c, "idle")
  /\ database = "open"
  /\ ActiveRows(users) # <<>>
  /\ calls' = [calls EXCEPT ![c] = Entered("resetDemoData", "delete")]
  /\ UNCHANGED <<storeVars, qrVars, obfVars, app>>

\* this.database = await SQLite.openDatabaseAsync(...)
OpenStep(c) ==
  /\ Awaits(c, "open")
  /\ database' \in Opened(database, users)
  /\ Goto(c, "createTables")
  /\ UNCHANGED <<users, secureStore, seedWrites, op, qrVars, obfVars, app>>

\* await this.createTables(): CREATE TABLE IF NOT EXISTS users
CreateTablesStep(c) ==
  /\ Awaits(c, "createTables")
  /\ database' = "open"
  /\ Goto(c, "getAllUsers")
  /\ UNCHANGED <<users, secureStore, seedWrites, op, qrVars, obfVars, app>>

\* what seedSampleData does with the list getAllUsers returned
AfterGetAllUsers(c, existing) ==
  IF ~IsOk(existing) THEN Return(c, existing)
  ELSE IF Len(ValOf(existing[2])) > 0 THEN Return(c, Ok(Undefined))
  ELSE Goto(c, "getItem") /\ UNCHANGED op

\* const existingUsers = await this.getAllUsers()
GetAllUsersStep(c) ==
  /\ Awaits(c, "getAllUsers")
  /\ AfterGetAllUsers(c, GetAllUsers(database, users))
  /\ UNCHANGED <<database, users, secureStore, seedWrites, qrVars, obfVars, app>>

\* what seedSampleData does with the list getEncryptedSeedData returned
AfterGetSeedData(c, seedData) ==
  IF HasElements(seedData)
  THEN calls' = [calls EXCEPT ![c].pc = "insertSeed", ![c].seedData = seedData, ![c].i = 1]
  ELSE Goto(c, "encrypt")

\* const seedData = await this.getEncryptedSeedData()
GetSeedDataStep(c) ==
  /\ Awaits(c, "getItem")
  /\ AfterGetSeedData(c, GetEncryptedSeedData(secureStore, NoFailure))
  /\ UNCHANGED <<storeVars, qrVars, obfVars, app>>

\* one turn of a loop of inserts over list, given what insertUser did; what
\* it throws ends the call with result thrown
AfterInsert(c, list, r, thrown) ==
  /\ users' = TableAfter(r)
  /\ IF ~IsOk(r) THEN Return(c, thrown)
     ELSE IF calls[c].i = Len(list) THEN Return(c, Ok(Undefined))
     ELSE calls' = [calls EXCEPT ![c].i = calls[c].i + 1] /\ UNCHANGED op

\* the inserts of seedSampleData, as far as their outcome is r
InsertSeedOutcome(c, list, r) == AfterInsert(c, list, r, Throw(r[2]))

\* for (const user of seedData) await this.insertUser(user): what insertUser
\* throws goes on to the caller of initDatabase
InsertSeedStep(c) ==
  /\ Awaits(c, "insertSeed")
  /\ InsertSeedOutcome(c, ElementsOf(calls[c].seedData),
                       InsertUser(database, users,
                                  ElementsOf(calls[c].seedData)[calls[c].i]))
  /\ UNCHANGED <<database, secureStore, seedWrites, qrVars, obfVars, app>>

\* const encryptedData = await this.encryptData(JSON.stringify(sampleUsers));
\* the catch clause of createAndStoreEncryptedSeedData swallows what it throws
EncryptStep(c, encrypted) ==
  /\ Awaits(c, "encrypt")
  /\ IF IsOk(encrypted)
     THEN calls' = [calls EXCEPT ![c].pc = "setItem", ![c].encrypted = encrypted]
          /\ UNCHANGED op
     ELSE Return(c, Ok(Undefined))
  /\ UNCHANGED <<database, users, secureStore, seedWrites, qrVars, obfVars, app>>

\* a setItemAsync that stores nothing
SetNothing(store, encrypted) == store

\* await SecureStore.setItemAsync('demo_users_seed', encryptedData)
SetSeedItem(store, encrypted) == [store EXCEPT !.demo_users_seed = Str(encrypted[2])]

\* the write of the blob, after which the loop of inserts begins
SetItemStep(c) ==
  /\ Awaits(c, "setItem")
  /\ secureStore' = SetSeedItem(secureStore, calls[c].encrypted)
  /\ seedWrites' = seedWrites + 1
  /\ calls' = [calls EXCEPT ![c].pc = "insert", ![c].i = 1]
  /\ UNCHANGED <<database, users, op, qrVars, obfVars, app>>

\* for (const user of sampleUsers) await this.insertUser(user): the catch
\* clause of createAndStoreEncryptedSeedData swallows what insertUser throws
InsertStep(c) ==
  /\ Awaits(c, "insert")
  /\ AfterInsert(c, SampleUsers, InsertUser(database, users, SampleUsers[calls[c].i]),
                 Ok(Undefined))
  /\ UNCHANGED <<database, secureStore, seedWrites, qrVars, obfVars, app>>

\* await this.database?.execAsync('DELETE FROM users'): skipped without a
\* handle; thrown by the engine without the table, and caught by resetDemoData
DeleteStep(c) ==
  /\ Awaits(c, "delete")
  /\ users' = IF database = "bare" THEN users ELSE DeleteAll(database, users)
  /\ IF database = "bare" THEN Return(c, Ok(Undefined))
     ELSE Goto(c, "deleteItem") /\ UNCHANGED op
  /\ UNCHANGED <<database, secureStore, seedWrites, qrVars, obfVars, app>>

\* await SecureStore.deleteItemAsync('demo_users_seed')
DeleteItemStep(c) ==
  /\ Awaits(c, "deleteItem")
  /\ secureStore' = [secureStore EXCEPT !.demo_users_seed = Null]
  /\ Goto(c, "encrypt")
  /\ UNCHANGED <<database, users, seedWrites, op, qrVars, obfVars, app>>

\* one step of a call of initDatabase by c
InitStep(c) ==
  \/ OpenStep(c)
  \/ CreateTablesStep(c)
  \/ GetAllUsersStep(c)
  \/ GetSeedDataStep(c)
  \/ InsertSeedStep(c)
  \/ \E encrypted \in SampleBlobs : EncryptStep(c, encrypted)
  \/ SetItemStep(c)
  \/ InsertStep(c)

\* one step of the call of c
CallStep(c) ==
  \/ InitStep(c)
  \/ DeleteStep(c)
  \/ DeleteItemStep(c)

\* a first launch, a launch that finds the blob of an earlier installation,
\* and a launch that finds the table seeded
InitRace ==
  /\ database = "null"
  /\ \/ users = <<>> /\ secureStore \in RaceStores
     \/ users = SeededTable /\ secureStore \in RaceStores \ {EmptyStore}
  /\ seedWrites = 0
  /\ op = NoOp
  /\ QrAtRest
  /\ ObfAtRest
  /\ app = NoApp
  /\ calls = [c \in RaceCallers |-> Idle]

NextRace ==
  \/ Launch
  \/ \E c \in Resetters : PressReset(c)
  \/ \E c \in RaceCallers : CallStep(c)

SpecRace == InitRace /\ [][NextRace]_vars

(***************************************************************************)
(* The login screen and the logout handler                                 *)
(***************************************************************************)
\* email.toLowerCase().trim()
Normalized(email) == Trim(ToLowerCase(email))

\* setUser(user); router.replace('/(main)/qr-display')
LoggedIn(form, user) == [form EXCEPT !.user = user, !.route = "qr-display"]

\* Alert.alert(...)
Alerted(form, alert) == [form EXCEPT !.alert = alert]

\* setEmail(storedEmail); setRememberMe(true)
Prefilled(form, storedEmail) ==
  [form EXCEPT !.email = ValOf(storedEmail), !.rememberMe = TRUE]

\* handleAutoLogin(storedEmail), given what getUserByEmail returned or threw
HandleAutoLogin(form, found) ==
  IF IsOk(found) /\ ~Falsy(found[2]) THEN LoggedIn(form, found[2]) ELSE form

\* loadStoredCredentials(), given what getStoredEmail and isLoginRecent returned
LoadStoredCredentials(form, db, table, storedEmail, isRecent) ==
  IF Falsy(storedEmail) THEN form
  ELSE IF ~Falsy(isRecent)
  THEN HandleAutoLogin(Prefilled(form, storedEmail),
                       GetUserByEmail(db, table, Str(Normalized(ValOf(storedEmail)))))
  ELSE Prefilled(form, storedEmail)

\* what handleLogin leaves: the secure store and the screen
Handled(store, form) == [store |-> store, form |-> form]

\* handleLogin once getUserByEmail has returned or thrown found
LoginFound(form, store, found, now) ==
  IF ~IsOk(found) THEN Handled(store, Alerted(form, "Login failed. Please try again."))
  ELSE IF Falsy(found[2]) THEN Handled(store, Alerted(form, "User not found"))
  ELSE IF form.rememberMe
  THEN Handled(StoreUserCredentials(store, Normalized(form.email), TRUE, now,
                                    NoFailure).store,
               LoggedIn(form, found[2]))
  ELSE Handled(ClearStoredCredentials(store, NoFailure).store, LoggedIn(form, found[2]))

\* handleLogin() at time now
HandleLogin(form, db, table, store, now) ==
  IF Trim(form.email) = <<>>
  THEN Handled(store, Alerted(form, "Please enter your email address"))
  ELSE LoginFound(form, store, GetUserByEmail(db, table, Str(Normalized(form.email))),
                  now)

\* the login screen as router.replace('/(auth)/login') mounts it: a new form,
\* its useEffect still to run
MountedLogin == [NoApp EXCEPT !.user = Null, !.route = "login", !.effect = "pending"]

\* the Logout button of the dialog handleLogout shows: both deletions, then
\* setUser(null) and the login screen
HandleLogout(store) ==
  Handled(ClearUserToken(ClearStoredCredentials(store, NoFailure).store, NoFailure).store,
          MountedLogin)

\* what is typed into the email field: ' John.Athlete@Sports.com ', z@x, and
\* two blanks
TypedEmails ==
  {<<32, 74, 111, 104, 110, 46, 65, 116, 104, 108, 101, 116, 101, 64, 83, 112, 111, 114,
     116, 115, 46, 99, 111, 109, 32>>,
   <<122, 64, 120>>, <<32, 32>>}

\* the secure store as a launch finds it: empty, or with z@x, who is in no
\* demo list, remembered at time 1 by an earlier installation
RememberedStores ==
  {EmptyStore,
   [EmptyStore EXCEPT !.rememberedEmail = Str(<<122, 64, 120>>),
                      !.lastLoginTime = Str(<<49>>)]}

InitLogin ==
  /\ QrAtRest
  /\ ObfAtRest
  /\ database = "null"
  /\ users = SeededTable
  /\ secureStore \in RememberedStores
  /\ seedWrites = 0
  /\ op = NoOp
  /\ AppAtRest

\* setupApp() of the root layout: initDatabase() on the seeded file
SetupApp(salt) ==
  /\ database = "null"
  /\ InitDatabase(salt)

\* the index page redirects to the login screen once the context holds no user
ShowLogin ==
  /\ app.route = "index"
  /\ app' = MountedLogin
  /\ op' = Called("index", Undefined, NoText)
  /\ UNCHANGED <<database, users, secureStore, seedWrites, qrVars, obfVars, calls>>

\* useEffect of the login screen: loadStoredCredentials()
LoadStoredCredentialsCall ==
  /\ app.route = "login"
  /\ app.effect = "pending"
  /\ app' = [LoadStoredCredentials(app, database, users,
                                   GetStoredEmail(secureStore, NoFailure)[2],
                                   IsLoginRecent(secureStore, clock, NoFailure)[2])
               EXCEPT !.effect = "none"]
  /\ op' = Called("loadStoredCredentials", Undefined, Ok(app'.user))
  /\ UNCHANGED <<database, users, secureStore, seedWrites, qrVars, obfVars, calls>>

\* the email field is edited
TypeEmail(email) ==
  /\ app.route = "login"
  /\ app.effect = "none"
  /\ app.email # email
  /\ app' = [app EXCEPT !.email = email]
  /\ op' = Called("setEmail", Str(email), NoText)
  /\ UNCHANGED <<database, users, secureStore, seedWrites, qrVars, obfVars, calls>>

\* the remember-me switch is flipped
ToggleRememberMe ==
  /\ app.route = "login"
  /\ app.effect = "none"
  /\ app' = [app EXCEPT !.rememberMe = ~app.rememberMe]
  /\ op' = Called("setRememberMe", Bool(~app.rememberMe), NoText)
  /\ UNCHANGED <<database, users, secureStore, seedWrites, qrVars, obfVars, calls>>

\* the Login button is pressed
HandleLoginCall ==
  /\ app.route = "login"
  /\ app.effect = "none"
  /\ \E handled \in {HandleLogin(app, database, users, secureStore, clock)} :
       /\ app' = handled.form
       /\ secureStore' = handled.store
       /\ op' = Called("handleLogin", Str(app.email), Ok(handled.form.user))
  /\ UNCHANGED <<database, users, seedWrites, qrVars, obfVars, calls>>

\* a session token is stored for the user who is logged in
StoreTokenCall(token) ==
  /\ app.route = "qr-display"
  /\ secureStore.userToken = Null
  /\ secureStore' = StoreUserToken(secureStore, token, NoFailure).store
  /\ op' = Called("storeUserToken", Str(token), Ok(Undefined))
  /\ UNCHANGED <<database, users, seedWrites, qrVars, obfVars, appVars>>

\* Logout is pressed on the QR screen and confirmed
HandleLogoutCall ==
  /\ app.route = "qr-display"
  /\ app' = HandleLogout(secureStore).form
  /\ secureStore' = HandleLogout(secureStore).store
  /\ op' = Called("handleLogout", Undefined, Ok(Undefined))
  /\ UNCHANGED <<database, users, seedWrites, qrVars, obfVars, calls>>

\* the application is closed and launched again: context, screens and handle
\* are gone, the database file and the secure store stay
Restart ==
  /\ app.route # "index"
  /\ app' = NoApp
  /\ database' = "null"
  /\ op' = Called("relaunch", Undefined, NoText)
  /\ UNCHANGED <<users, secureStore, seedWrites, qrVars, obfVars, calls>>

NextLogin ==
  \/ \E d \in TickSteps : Tick(d)
  \/ \E salt \in {[i \in 1..16 |-> i]} : SetupApp(salt)
  \/ ShowLogin
  \/ LoadStoredCredentialsCall
  \/ \E email \in TypedEmails : TypeEmail(email)
  \/ ToggleRememberMe
  \/ HandleLoginCall
  \/ \E token \in KeyTokens : StoreTokenCall(token)
  \/ HandleLogoutCall
  \/ Restart

SpecLogin == InitLogin /\ [][NextLogin]_vars

(***************************************************************************)
(* Calls in flight: handleLogin while initDatabase runs                    *)
(***************************************************************************)
\* the calls the root layout and the Login button make
EarlyCallers == {"setupApp", "login"}

\* if (!email.trim()): nothing to look up
BlankEmail(email) == Trim(email) = <<>>

\* the Login button is pressed: handleLogin() runs up to its first await with
\* the email and the switch as the form shows them
PressLogin ==
  /\ Awaits("login", "idle")
  /\ app.route = "login"
  /\ app.effect = "none"
  /\ IF BlankEmail(app.email)
     THEN /\ app' = Alerted(app, "Please enter your email address")
          /\ UNCHANGED calls
     ELSE /\ calls' = [calls EXCEPT !["login"] =
                         [Entered("handleLogin", "getUserByEmail")
                            EXCEPT !.email = app.email, !.rememberMe = app.rememberMe]]
          /\ UNCHANGED app
  /\ UNCHANGED <<storeVars, qrVars, obfVars>>

\* a test that takes whatever getUserByEmail returned or threw for a user
FoundAlways(found) == TRUE

\* if (user), for what getUserByEmail returned
FoundUser(found) == IsOk(found) /\ ~Falsy(found[2])

\* what handleLogin does with what getUserByEmail returned or threw: the catch
\* clause and the else branch alert and the call is over
AfterGetUserByEmail(c, found) ==
  IF FoundUser(found)
  THEN /\ calls' = [calls EXCEPT ![c].found = found[2],
                                 ![c].pc = IF calls[c].rememberMe THEN "setEmail"
                                           ELSE "deleteEmail"]
       /\ UNCHANGED <<app, op>>
  ELSE /\ Return(c, found)
       /\ app' = Alerted(app, IF IsOk(found) THEN "User not found"
                              ELSE "Login failed. Please try again.")

\* const user = await DatabaseService.getUserByEmail(email.toLowerCase().trim())
GetUserByEmailStep(c) ==
  /\ Awaits(c, "getUserByEmail")
  /\ AfterGetUserByEmail(c, GetUserByEmail(database, users,
                                           Str(Normalized(calls[c].email))))
  /\ UNCHANGED <<database, users, secureStore, seedWrites, qrVars, obfVars>>

\* await SecureStore.setItemAsync('rememberedEmail', email)
SetEmailStep(c) ==
  /\ Awaits(c, "setEmail")
  /\ secureStore' = [secureStore EXCEPT
                       !.rememberedEmail = Str(Normalized(calls[c].email))]
  /\ Goto(c, "setTime")
  /\ UNCHANGED <<database, users, seedWrites, op, qrVars, obfVars, app>>

\* the last await of handleLogin has returned: setUser(user) and
\* router.replace('/(main)/qr-display')
Proceed(c) ==
  /\ app' = LoggedIn(app, calls[c].found)
  /\ Return(c, Ok(calls[c].found))

\* await SecureStore.setItemAsync('lastLoginTime', Date.now().toString())
SetTimeStep(c) ==
  /\ Awaits(c, "setTime")
  /\ secureStore' = [secureStore EXCEPT !.lastLoginTime = Str(NumText(clock))]
  /\ Proceed(c)
  /\ UNCHANGED <<database, users, seedWrites, qrVars, obfVars>>

\* await SecureStore.deleteItemAsync('rememberedEmail')
DeleteEmailStep(c) ==
  /\ Awaits(c, "deleteEmail")
  /\ secureStore' = [secureStore EXCEPT !.rememberedEmail = Null]
  /\ Goto(c, "deleteTime")
  /\ UNCHANGED <<database, users, seedWrites, op, qrVars, obfVars, app>>

\* await SecureStore.deleteItemAsync('lastLoginTime')
DeleteTimeStep(c) ==
  /\ Awaits(c, "deleteTime")
  /\ secureStore' = [secureStore EXCEPT !.lastLoginTime = Null]
  /\ Proceed(c)
  /\ UNCHANGED <<database, users, seedWrites, qrVars, obfVars>>

\* one step of the call of handleLogin by c
LoginStep(c) ==
  \/ GetUserByEmailStep(c)
  \/ SetEmailStep(c)
  \/ SetTimeStep(c)
  \/ DeleteEmailStep(c)
  \/ DeleteTimeStep(c)

\* a launch as InitRace has it, whose secure store may remember z@x
InitEarly ==
  /\ database = "null"
  /\ \/ users = <<>> /\ secureStore \in RaceStores
     \/ users = SeededTable /\ secureStore \in RaceStores \ {EmptyStore}
     \/ /\ users = SeededTable
        /\ \E found \in RaceStores \ {EmptyStore}, kept \in RememberedStores :
             secureStore = [kept EXCEPT !.demo_users_seed = found.demo_users_seed]
  /\ seedWrites = 0
  /\ op = NoOp
  /\ QrAtRest
  /\ ObfAtRest
  /\ app = NoApp
  /\ calls = [c \in EarlyCallers |-> Idle]

NextEarly ==
  \/ Launch
  \/ InitStep("setupApp")
  \/ ShowLogin
  \/ LoadStoredCredentialsCall
  \/ \E email \in TypedEmails : TypeEmail(email)
  \/ ToggleRememberMe
  \/ PressLogin
  \/ LoginStep("login")

SpecEarly == InitEarly /\ [][NextEarly]_vars

(***************************************************************************)
(* C1, C2: issued tokens                                                   *)
(***************************************************************************)
\* the keys of the inner payload, in the order they are written
PayloadKeys ==
  <<K_user_id, K_email, K_name, K_access_level, K_allowed_areas, K_timestamp,
    K_expires_at, K_device_fingerprint, K_version>>

\* the issued token was scanned as issued, the clock still at the issuing time
ScannedAtIssue ==
  scan.kind = "issued" /\ scan.at = qr.at /\ scan.later = qr.at

\* C1: verifyQRData on the string generateSecureQRData returned, the clock
\* unchanged since issuance, returns valid = true with a payload equal field
\* for field to the payload that was signed: user_id, email, name,
\* access_level, allowed_areas, timestamp, expires_at = timestamp + 1 hour,
\* device_fingerprint and version '2.0'
C1_RoundTrip ==
  ScannedAtIssue =>
    /\ scan.result[1] = "ok"
    /\ scan.result[2].valid
    /\ Tag(scan.result[2].payload) = "object"
    /\ LET p == scan.result[2].payload
           u == qr.user
       IN /\ [i \in 1..Len(ValOf(p)) |-> ValOf(p)[i][1]] = PayloadKeys
          /\ GetProp(p, K_user_id) = Num(u.id)
          /\ GetProp(p, K_email) = Str(u.email)
          /\ GetProp(p, K_name) = Str(u.name)
          /\ GetProp(p, K_access_level) = Str(u.access_level)
          /\ GetProp(p, K_allowed_areas)
               = Arr([i \in 1..Len(u.allowed_areas) |-> Str(u.allowed_areas[i])])
          /\ GetProp(p, K_timestamp) = Num(qr.at)
          /\ GetProp(p, K_expires_at) = Num(qr.at + 3600000)
          /\ GetProp(p, K_device_fingerprint) = Str(GetDeviceFingerprint(device))
          /\ GetProp(p, K_version) = Str(<<50, 46, 48>>)
          /\ Str(JsonText(p)) = qr.env.data

\* C1 happens: the token of the user named A"\e-acute, issued after the clock
\* has advanced, is found valid at its issuing time
C1_Witness ==
  /\ ScannedAtIssue
  /\ qr.at > 1
  /\ qr.user.id = 1
  /\ scan.result[1] = "ok"
  /\ scan.result[2].valid

\* the issued token was scanned inside its validity window with its data
\* replaced by a different non-empty string, signature and timestamp kept
ScannedTampered ==
  /\ scan.kind = "tampered"
  /\ scan.later <= qr.at + ExpiryMs
  /\ scan.env.data # qr.env.data
  /\ scan.env.data # Str(<<>>)
  /\ scan.env.signature = qr.env.signature
  /\ scan.env.timestamp = qr.env.timestamp

\* C2: a token verified inside its validity window with its data replaced by
\* a different non-empty string, signature and timestamp unchanged, is
\* rejected with reason 'QR code tampered'
C2_Tampered ==
  ScannedTampered => scan.result = Ok(Invalid("QR code tampered"))

\* C2 happens: the payload of the other user, well formed and issued at the
\* same time, is put in place of the issued one and refused as tampered
C2_Witness ==
  /\ ScannedTampered
  /\ scan.at > qr.at
  /\ \E u \in QrUsers \ {qr.user} :
       scan.env.data = Str(JsonText(QrPayload(u, device, qr.at)))
  /\ scan.result = Ok(Invalid("QR code tampered"))

(***************************************************************************)
(* C3, C4, C5: scanned texts                                               *)
(***************************************************************************)
\* an envelope was scanned whose data and signature are non-empty strings and
\* whose timestamp is a number: no field of it is missing
ScannedEnvelope ==
  /\ scan.kind = "envelope"
  /\ Tag(scan.env.data) = "string"
  /\ scan.env.data # Str(<<>>)
  /\ Tag(scan.env.signature) = "string"
  /\ scan.env.signature # Str(<<>>)
  /\ Tag(scan.env.timestamp) = "number"

\* the signature of the scanned envelope is the digest of its data and the secret
SignatureMatches ==
  scan.env.signature = Str(Digest(ValOf(scan.env.data) \o SignSecret))

\* the age of the scanned envelope when verification began
ScannedAge == scan.at - ValOf(scan.env.timestamp)

\* C3: an envelope whose timestamp is more than 24 hours before the current
\* time is rejected with reason 'QR code expired', whether or not its
\* signature matches; a correctly signed envelope exactly 24 hours old, its
\* payload not yet expired, is accepted
C3_HardWindow ==
  /\ (ScannedEnvelope /\ ScannedAge > 86400000)
       => scan.result = Ok(Invalid("QR code expired"))
  /\ (ScannedEnvelope /\ ScannedAge = 86400000 /\ SignatureMatches
        /\ Tag(qr.exp) = "number" /\ ValOf(qr.exp) >= scan.later)
       => (scan.result[1] = "ok" /\ scan.result[2].valid)

\* C4: a correctly signed envelope inside the 24-hour window (its timestamp
\* not zero, so that the format check lets it through) is rejected with
\* reason 'QR code expired' whenever the current time is later than the
\* expires_at its payload carries, whatever that value is
C4_SoftWindow ==
  (/\ ScannedEnvelope
   /\ SignatureMatches
   /\ ScannedAge <= 86400000
   /\ ValOf(scan.env.timestamp) # 0
   /\ Tag(qr.exp) = "number"
   /\ scan.later > ValOf(qr.exp))
    => scan.result = Ok(Invalid("QR code expired"))

\* the reasons verifyQRData gives
Reasons == {"Invalid QR format", "QR code expired", "QR code tampered", "Invalid QR data"}

\* C5: verifyQRData never raises: whatever text it is given, it returns
\* valid = true with a payload, or valid = false with one of the four reasons
C5_NeverRaises ==
  scan.kind # "none" =>
    /\ scan.result[1] = "ok"
    /\ \/ scan.result[2].valid /\ scan.result[2].payload # Undefined
       \/ ~scan.result[2].valid /\ scan.result[2].reason \in Reasons

\* C5 happens: an envelope whose correctly signed data is the text null, so
\* that reading payload.expires_at throws, comes back as 'Invalid QR data'
C5_Witness ==
  /\ ScannedEnvelope
  /\ scan.env.data = Str(<<110, 117, 108, 108>>)
  /\ SignatureMatches
  /\ scan.env.timestamp = Num(scan.at)
  /\ VerifyTry(scan.input, scan.at, scan.later)[1] = "throw"
  /\ scan.result = Ok(Invalid("Invalid QR data"))

(***************************************************************************)
(* C6: the obfuscation round trip                                          *)
(***************************************************************************)
\* C6: for every string without a lone surrogate and every salt,
\* decryptData(encryptData(s)) returns s, strings that contain '::' included
C6_RoundTrip ==
  (obf.stage = "decrypted" /\ ~HasLoneSurrogate(obf.plain))
    => (obf.out[1] = "ok" /\ obf.out[2] = obf.plain)

(***************************************************************************)
(* C7 - C10: the users table                                               *)
(***************************************************************************)
\* the rows of table that carry email
RowsWith(table, email) ==
  {i \in 1..Len(table) : Tag(table[i].email) = "string" /\ table[i].email = email}

\* the last call was insertUser with a record whose email a row already had
InsertedAgain ==
  /\ database = "open"
  /\ op'.name = "insertUser"
  /\ RowsWith(users, GetProp(op'.arg, K_email)) # {}

\* C7: insertUser on a record whose email a row already carries, active or
\* not, leaves the table unchanged; no two rows ever share an email, and after
\* insertUser has returned exactly one row carries the email of its record
C7_Idempotent ==
  /\ [][InsertedAgain => users' = users]_vars
  /\ [](\A i, j \in 1..Len(users) : users[i].email = users[j].email => i = j)
  /\ []((op.name = "insertUser" /\ IsOk(op.result))
          => Cardinality(RowsWith(users, GetProp(op.arg, K_email))) = 1)

\* C7 happens: a@x, active and named A, is in the table when insertUser is
\* called with an inactive a@x named B, and the row stays as it was
C7_Witness ==
  /\ op.name = "insertUser"
  /\ IsOk(op.result)
  /\ op.arg = UserRecord(<<97, 64, 120>>, <<66>>, FALSE)
  /\ \E i \in RowsWith(users, Str(<<97, 64, 120>>)) :
       users[i].name = Str(<<65>>) /\ users[i].is_active = 1

\* the rows a returned record may come from: those with its id
RowsOfUser(user) == {i \in 1..Len(users) : Num(users[i].id) = GetProp(user, K_id)}

\* a returned record is marked active and comes from a row stored as active
FromActiveRow(user) ==
  /\ GetProp(user, K_is_active) = Bool(TRUE)
  /\ RowsOfUser(user) # {}
  /\ \A i \in RowsOfUser(user) : users[i].is_active = 1

\* C8: getUserByEmail and getAllUsers return only records stored as active;
\* getUserByEmail on the email of an inactive record returns null
C8_ActiveOnly ==
  /\ (op.name = "getAllUsers" /\ IsOk(op.result))
       => \A k \in 1..Len(ValOf(op.result[2])) : FromActiveRow(ValOf(op.result[2])[k])
  /\ (op.name = "getUserByEmail" /\ IsOk(op.result))
       => /\ Tag(op.result[2]) # "null" => FromActiveRow(op.result[2])
          /\ (\E i \in RowsWith(users, op.arg) : users[i].is_active = 0)
               => Tag(op.result[2]) = "null"

\* C8 happens: b@x is stored as inactive and getUserByEmail('b@x') returns null
C8_Witness ==
  /\ op.name = "getUserByEmail"
  /\ op.arg = Str(<<98, 64, 120>>)
  /\ \E i \in RowsWith(users, op.arg) : users[i].is_active = 0
  /\ op.result = Ok(Null)

\* the emails of the ten demo records, in the order getAllUsers lists them
DemoEmails ==
  <<<<106, 111, 104, 110, 46, 97, 116, 104, 108, 101, 116, 101, 64, 115, 112, 111,
      114, 116, 115, 46, 99, 111, 109>>,
    <<115, 97, 114, 97, 104, 46, 118, 105, 112, 64, 99, 111, 109, 112, 97, 110, 121,
      46, 99, 111, 109>>,
    <<109, 105, 107, 101, 46, 115, 116, 97, 102, 102, 64, 101, 118, 101, 110, 116, 46,
      99, 111, 109>>,
    <<101, 109, 109, 97, 46, 115, 101, 99, 117, 114, 105, 116, 121, 64, 101, 118, 101,
      110, 116, 46, 99, 111, 109>>,
    <<100, 97, 118, 105, 100, 46, 109, 97, 110, 97, 103, 101, 114, 64, 101, 118, 101,
      110, 116, 46, 99, 111, 109>>,
    <<108, 105, 115, 97, 46, 99, 111, 97, 99, 104, 64, 115, 112, 111, 114, 116, 115,
      46, 99, 111, 109>>,
    <<97, 108, 101, 120, 46, 109, 101, 100, 105, 97, 64, 110, 101, 119, 115, 46, 99,
      111, 109>>,
    <<115, 111, 112, 104, 105, 101, 46, 115, 112, 111, 110, 115, 111, 114, 64, 99,
      111, 114, 112, 46, 99, 111, 109>>,
    <<106, 97, 109, 101, 115, 46, 118, 111, 108, 117, 110, 116, 101, 101, 114, 64,
      101, 118, 101, 110, 116, 46, 99, 111, 109>>,
    <<109, 97, 114, 105, 97, 46, 111, 102, 102, 105, 99, 105, 97, 108, 64, 115, 112,
      111, 114, 116, 115, 46, 111, 114, 103>>>>

\* 'john.athlete@sports.com'
JohnEmail == DemoEmails[1]

\* ['Main Arena', 'General Entrance', 'Food Court']
JohnAreas ==
  Arr(<<Str(<<77, 97, 105, 110, 32, 65, 114, 101, 110, 97>>),
        Str(<<71, 101, 110, 101, 114, 97, 108, 32, 69, 110, 116, 114, 97, 110, 99, 101>>),
        Str(<<70, 111, 111, 100, 32, 67, 111, 117, 114, 116>>)>>)

\* initDatabase has just run on an empty table, the named item of the secure
\* store absent (found = FALSE) or present (found = TRUE) before it
FirstRun(found) ==
  /\ op'.name = "initDatabase"
  /\ users = <<>>
  /\ (Tag(secureStore.demo_users_seed) = "string") = found

\* the record getAllUsers returns for the i-th demo record
DemoUser(i) == Obj(<< <<K_id, Num(i)>> >> \o ValOf(SampleUsers[i]))

\* C9: after initDatabase on an empty table with no stored blob, the secure
\* store holds a blob that decodes to the demo list, getAllUsers returns the
\* ten demo records, and getUserByEmail('john.athlete@sports.com') returns
\* the record with access_level 'General' and allowed_areas ['Main Arena',
\* 'General Entrance', 'Food Court']
C9_FirstRunSeeds ==
  [][FirstRun(FALSE) =>
       /\ op'.result = Ok(Undefined)
       /\ Tag(secureStore'.demo_users_seed) = "string"
       /\ ParseDecrypted(DecryptData(ValOf(secureStore'.demo_users_seed)))
            = Ok(Arr(SampleUsers))
       /\ GetAllUsers(database', users') = Ok(Arr([i \in 1..10 |-> DemoUser(i)]))
       /\ \A i \in 1..10 : GetProp(DemoUser(i), K_email) = Str(DemoEmails[i])
       /\ LET john == GetUserByEmail(database', users', Str(JohnEmail))[2]
          IN /\ GetProp(john, K_email) = Str(JohnEmail)
             /\ GetProp(john, K_access_level) = Str(<<71, 101, 110, 101, 114, 97, 108>>)
             /\ GetProp(john, K_allowed_areas) = JohnAreas]_vars

\* C9 happens: initDatabase has written the blob once and the table holds
\* ten rows, the first of them john.athlete@sports.com
C9_Witness ==
  /\ op.name = "initDatabase"
  /\ seedWrites = 1
  /\ Len(users) = 10
  /\ users[1].email = Str(JohnEmail)

\* the list the stored blob was written from
StoredList(store) == ValOf(ParseDecrypted(DecryptData(ValOf(store.demo_users_seed)))[2])

\* row i of the table is record i of the list
RowIsRecord(row, i, record) ==
  /\ row.id = i
  /\ row.email = GetProp(record, K_email)
  /\ row.name = GetProp(record, K_name)
  /\ row.phone = GetProp(record, K_phone)
  /\ row.access_level = GetProp(record, K_access_level)
  /\ row.allowed_areas = JsonStringify(GetProp(record, K_allowed_areas))
  /\ row.is_active = 1

\* C10: after initDatabase on an empty table with a blob stored, the table
\* holds the records the blob decodes to, one row for each, the demo list is
\* not generated again, and the stored blob is what it was
C10_SeedsFromBlob ==
  [][FirstRun(TRUE) =>
       /\ op'.result = Ok(Undefined)
       /\ secureStore' = secureStore
       /\ seedWrites' = seedWrites
       /\ Len(users') = Len(StoredList(secureStore))
       /\ \A i \in 1..Len(users') :
            RowIsRecord(users'[i], i, StoredList(secureStore)[i])]_vars

\* C10 happens: initDatabase has filled the table with ten rows from a blob
\* it found, and has written no blob itself
C10_Witness ==
  /\ op.name = "initDatabase"
  /\ seedWrites = 0
  /\ Tag(secureStore.demo_users_seed) = "string"
  /\ Len(users) = 10
  /\ \A i \in 1..10 : users[i].email = Str(DemoEmails[i])

(***************************************************************************)
(* C11, C12, C14: reset, rejected calls, initDatabase again                *)
(***************************************************************************)
\* the table holds the ten demo records and nothing else, with ids 1 to 10
HoldsDemoData(table) ==
  /\ Len(table) = 10
  /\ \A i \in 1..10 : RowIsRecord(table[i], i, SampleUsers[i])

\* every demo record is a row of the table
HoldsDemoRecords(table) ==
  \A i \in 1..10 : \E j \in 1..Len(table) : RowIsRecord(table[j], table[j].id, SampleUsers[i])

\* the secure store holds a blob that decodes to the demo list
BlobOfDemoData(store) ==
  /\ Tag(store.demo_users_seed) = "string"
  /\ ParseDecrypted(DecryptData(ValOf(store.demo_users_seed))) = Ok(Arr(SampleUsers))

\* C11: whatever the table and the secure store held, once resetDemoData has
\* completed with no call rejected the table holds exactly the ten demo
\* records and the secure store a blob of the demo list written by this call
C11_ResetRegenerates ==
  [][(op'.name = "resetDemoData" /\ op'.io = NoFailure) =>
       /\ op'.result = Ok(Undefined)
       /\ HoldsDemoData(users')
       /\ BlobOfDemoData(secureStore')
       /\ seedWrites' = seedWrites + 1]_vars

\* C11 happens: resetDemoData has run after initDatabase had seeded the table,
\* has written the second blob, and the table holds the ten demo records
C11_Witness ==
  /\ op.name = "resetDemoData"
  /\ op.io = NoFailure
  /\ seedWrites = 2
  /\ Len(users) = 10
  /\ users[1].email = Str(JohnEmail)

\* C12: when getItemAsync, setItemAsync or deleteItemAsync rejects during
\* initDatabase or resetDemoData, the call still completes without raising
\* and the table holds the demo records afterwards
C12_FailuresSwallowed ==
  [][(/\ op'.name \in {"initDatabase", "resetDemoData"}
      /\ ~op'.io.open
      /\ (op'.io.get \/ op'.io.set \/ op'.io.del)) =>
       /\ op'.result = Ok(Undefined)
       /\ HoldsDemoRecords(users')]_vars

\* C14: initDatabase on a table that holds active records leaves the table,
\* the blob and the count of blob writes as they were, and when the database
\* cannot be opened the error is raised and nothing is touched
C14_InitIdempotent ==
  [][op'.name = "initDatabase" =>
       /\ op'.io.open =>
            /\ op'.result = Throw("open failed")
            /\ <<database', users', secureStore', seedWrites'>>
                 = <<database, users, secureStore, seedWrites>>
       /\ (~op'.io.open /\ ActiveRows(users) # <<>>) =>
            /\ op'.result = Ok(Undefined)
            /\ database' = "open"
            /\ <<users', secureStore', seedWrites'>> = <<users, secureStore, seedWrites>>]_vars

\* C14 happens: initDatabase has completed on a table that held the ten demo
\* records and an eleventh row that was inserted after them
C14_Witness ==
  /\ op.name = "initDatabase"
  /\ ~op.io.open
  /\ op.result = Ok(Undefined)
  /\ Len(users) = 11
  /\ users[1].email = Str(JohnEmail)

(***************************************************************************)
(* C13: session bookkeeping never raises                                   *)
(***************************************************************************)
\* the calls that return nothing
KeysWriters ==
  {"storeUserCredentials", "clearStoredCredentials", "storeUserToken", "clearUserToken"}

\* the calls that return a stored string or null
KeysReaders == {"getStoredEmail", "getUserToken"}

\* C13: no bookkeeping call raises: the store and clear calls return nothing,
\* whatever the secure store does, and when its read rejects getStoredEmail
\* and getUserToken return null and isLoginRecent returns false
C13_KeysNeverRaise ==
  /\ op.name \in KeysWriters => op.result = Ok(Undefined)
  /\ op.name \in KeysReaders =>
       /\ IsOk(op.result)
       /\ op.io.get => op.result = Ok(Null)
  /\ op.name = "isLoginRecent" =>
       /\ op.result \in {Ok(Bool(TRUE)), Ok(Bool(FALSE))}
       /\ op.io.get => op.result = Ok(Bool(FALSE))

\* C13 happens: getStoredEmail has returned null although an email is stored,
\* because the read was rejected
C13_Witness ==
  /\ op.name = "getStoredEmail"
  /\ op.io.get
  /\ op.result = Ok(Null)
  /\ Tag(secureStore.rememberedEmail) = "string"

(***************************************************************************)
(* C15: the derived views                                                  *)
(***************************************************************************)
\* the strings of xs ascend strictly, character by character
Ascending(xs) ==
  \A i \in 1..Len(xs) : \A j \in (i + 1)..Len(xs) :
    /\ Tag(xs[i]) = "string"
    /\ Tag(xs[j]) = "string"
    /\ LexLess(ValOf(xs[i]), ValOf(xs[j]))

\* the access levels of the active rows
ActiveLevels(table) ==
  {ActiveRows(table)[i].access_level : i \in 1..Len(ActiveRows(table))}

\* the areas of the active rows
ActiveAreas(table) ==
  UNION {{ValOf(JsonParse(ActiveRows(table)[i].allowed_areas)[2])[k] :
            k \in 1..Len(ValOf(JsonParse(ActiveRows(table)[i].allowed_areas)[2]))} :
           i \in 1..Len(ActiveRows(table))}

\* the elements of the array a call returned
Returned(result) == {ValOf(result[2])[k] : k \in 1..Len(ValOf(result[2]))}

\* C15: getAvailableAccessLevels and getAvailableAreas always return a list
\* without duplicates in ascending order: the access levels, or the areas, of
\* the active records when the table can be read, and the fallback list,
\* without raising, when it cannot
C15_SortedViews ==
  op.name \in {"getAvailableAccessLevels", "getAvailableAreas"} =>
    /\ IsOk(op.result)
    /\ Tag(op.result[2]) = "array"
    /\ Ascending(ValOf(op.result[2]))
    /\ (database = "open" /\ op.name = "getAvailableAccessLevels") =>
         Returned(op.result) = ActiveLevels(users)
    /\ (database = "open" /\ op.name = "getAvailableAreas") =>
         Returned(op.result) = ActiveAreas(users)
    /\ (database = "null" /\ op.name = "getAvailableAccessLevels") =>
         op.result = Ok(FallbackLevels)
    /\ (database = "null" /\ op.name = "getAvailableAreas") =>
         op.result = Ok(FallbackAreas)

\* C15 as amended: when the table can be read the two calls return, without
\* duplicates and in ascending order, the access levels and the areas of the
\* active records; when it cannot they return the fallback list as it is
\* written in the source, which is not in ascending order
C15_SortedWhenReadable ==
  op.name \in {"getAvailableAccessLevels", "getAvailableAreas"} =>
    /\ IsOk(op.result)
    /\ Tag(op.result[2]) = "array"
    /\ database = "open" => Ascending(ValOf(op.result[2]))
    /\ (database = "open" /\ op.name = "getAvailableAccessLevels") =>
         Returned(op.result) = ActiveLevels(users)
    /\ (database = "open" /\ op.name = "getAvailableAreas") =>
         Returned(op.result) = ActiveAreas(users)
    /\ (database = "null" /\ op.name = "getAvailableAccessLevels") =>
         (op.result = Ok(FallbackLevels) /\ ~Ascending(ValOf(op.result[2])))
    /\ (database = "null" /\ op.name = "getAvailableAreas") =>
         (op.result = Ok(FallbackAreas) /\ ~Ascending(ValOf(op.result[2])))

\* C15 happens: getAvailableAreas has returned the six areas of the demo
\* records and the area of one more active record
C15_Witness ==
  /\ op.name = "getAvailableAreas"
  /\ database = "open"
  /\ IsOk(op.result)
  /\ Len(ValOf(op.result[2])) = 7

(***************************************************************************)
(* C16: the order of the checks of verifyQRData                            *)
(***************************************************************************)
\* a field of the scanned envelope is absent
FieldMissing ==
  /\ scan.kind = "envelope"
  /\ Undefined \in {scan.env.data, scan.env.signature, scan.env.timestamp}

\* C16: verifyQRData checks format, hard window, signature and soft expiry in
\* that order: an envelope more than 24 hours old whose signature does not
\* match is rejected with 'QR code expired', and an envelope with a field
\* missing is rejected with 'Invalid QR format' whatever its age or signature
C16_CheckOrder ==
  /\ (ScannedEnvelope /\ ScannedAge > 86400000 /\ ~SignatureMatches)
       => scan.result = Ok(Invalid("QR code expired"))
  /\ FieldMissing => scan.result = Ok(Invalid("Invalid QR format"))

(***************************************************************************)
(* C17: envelopes rewritten without the secret                             *)
(***************************************************************************)
\* the scanned text was accepted
Accepted == scan.result[1] = "ok" /\ scan.result[2].valid

\* C17: an envelope made from an issued token by rewriting envelope fields
\* without recomputing the signature is accepted only with the issued data
\* unmodified and only while the current time is not later than the signed
\* expires_at, the time of issue plus one hour
C17_NoLateAcceptance ==
  (scan.kind \in {"altered", "tampered"} /\ Accepted) =>
    /\ scan.env.data = qr.env.data
    /\ scan.env.signature = qr.env.signature
    /\ scan.later <= qr.at + 3600000
    /\ scan.result[2].payload = JsonParse(qr.env.data)[2]

\* C17 happens: a token whose envelope timestamp was rewritten is accepted at
\* the last millisecond of its hour
C17_Witness ==
  /\ scan.kind = "altered"
  /\ scan.env.timestamp # qr.env.timestamp
  /\ scan.later = qr.at + 3600000
  /\ Accepted

(***************************************************************************)
(* C18: initDatabase and resetDemoData running concurrently                *)
(***************************************************************************)
\* initDatabase has returned and no call is in flight
AllReturned ==
  /\ Awaits("setupApp", "done")
  /\ \A c \in Resetters : Awaits(c, "idle") \/ Awaits(c, "done")

\* the table holds the ten demo emails, each in exactly one row, and no other row
HoldsDemoEmails(table) ==
  /\ Len(table) = 10
  /\ \A i \in 1..Len(DemoEmails) :
       Cardinality({j \in 1..Len(table) : table[j].email = Str(DemoEmails[i])}) = 1

\* C18: whatever the interleaving of initDatabase and resetDemoData calls
\* that suspend at every await, with no native call rejecting, once all of
\* them have returned the users table holds the ten demo emails, each exactly
\* once, and a seed blob is stored
C18_RaceSeeds ==
  AllReturned =>
    /\ HoldsDemoEmails(users)
    /\ Tag(secureStore.demo_users_seed) = "string"
    /\ \A c \in RaceCallers : calls[c].result \in {NoText, Ok(Undefined)}

\* C18 happens: both calls have returned, and the DELETE of resetDemoData ran
\* between the inserts of initDatabase, so that the first row of the table is
\* not the first demo record
C18_Witness ==
  /\ \A c \in RaceCallers : Awaits(c, "done")
  /\ users # <<>>
  /\ users[1].email # Str(DemoEmails[1])
  /\ HoldsDemoEmails(users)

(***************************************************************************)
(* C19: logout forgets the remembered login                                *)
(***************************************************************************)
RECURSIVE ClocksAfter(_)
\* the readings of the clock after at most n advances
ClocksAfter(n) ==
  IF n = 0 THEN {1}
  ELSE ClocksAfter(n - 1) \cup {c + d : c \in ClocksAfter(n - 1), d \in TickSteps}

\* the useEffect of the login screen logs a user in
AutoLoggedIn == app.effect = "pending" /\ app'.route = "qr-display"

\* an active row of the table is the record of the remembered email, and
\* the context holds that record
RememberedRecord(table, store, user) ==
  \E j \in 1..Len(table) :
    /\ table[j].is_active = 1
    /\ table[j].email = store.rememberedEmail
    /\ GetProp(user, K_email) = store.rememberedEmail
    /\ GetProp(user, K_id) = Num(table[j].id)
    /\ GetProp(user, K_is_active) = Bool(TRUE)

\* the last login the secure store records is less than 24 hours before now
LoggedInLately(store, now) ==
  \E t \in ClocksAfter(MaxTicks) :
    store.lastLoginTime = Str(NatText(t)) /\ now - t < 86400000

\* C19: once the logout handler has completed, rememberedEmail, lastLoginTime
\* and userToken are absent from the secure store and no user is set; a
\* remembered email comes to be stored only by a login that succeeds with
\* remember-me on; and a mount of the login screen logs a user in only when a
\* remembered email is stored, the last login is less than 24 hours old and
\* an active record with that email exists. So no mount after a logout logs
\* in before such a login has succeeded again
C19_LogoutForgets ==
  /\ [][(op'.name = "handleLogout" /\ app.route = "qr-display") =>
          /\ secureStore'.rememberedEmail = Null
          /\ secureStore'.lastLoginTime = Null
          /\ secureStore'.userToken = Null
          /\ app'.user = Null
          /\ app'.route = "login"]_vars
  /\ [][(secureStore.rememberedEmail = Null /\ secureStore'.rememberedEmail # Null) =>
          /\ op'.name = "handleLogin"
          /\ app.rememberMe
          /\ app'.route = "qr-display"
          /\ Tag(app'.user) = "object"]_vars
  /\ [][AutoLoggedIn =>
          /\ Tag(secureStore.rememberedEmail) = "string"
          /\ LoggedInLately(secureStore, clock)
          /\ RememberedRecord(users, secureStore, app'.user)]_vars

\* C19 happens: John, who logged in with remember-me on, is logged in by the
\* effect of a login screen mounted later, his login being less than a day old
C19_Witness ==
  /\ op.name = "loadStoredCredentials"
  /\ app.route = "qr-display"
  /\ GetProp(app.user, K_email) = Str(JohnEmail)
  /\ secureStore.rememberedEmail = Str(JohnEmail)
  /\ LoggedInLately(secureStore, clock)

(***************************************************************************)
(* C20: a login while initDatabase is running                              *)
(***************************************************************************)
\* getUserByEmail returns or throws to handleLogin in this step
LooksUp == Awaits("login", "getUserByEmail") /\ calls'["login"].pc # "getUserByEmail"

\* initDatabase has not returned
Initializing == ~Awaits("setupApp", "done")

\* handleLogin ends in this step with an alert: no user is set, the screen
\* stays, and the stored credentials are what they were
Refused ==
  /\ calls'["login"].pc = "done"
  /\ app'.user = app.user
  /\ app'.route = app.route
  /\ app'.alert \in {"User not found", "Login failed. Please try again."}
  /\ secureStore' = secureStore

\* user is the record of an active row of the table
ActiveRecord(table, user) ==
  \E j \in 1..Len(table) :
    /\ table[j].is_active = 1
    /\ GetProp(user, K_email) = table[j].email
    /\ GetProp(user, K_id) = Num(table[j].id)
    /\ GetProp(user, K_name) = table[j].name
    /\ GetProp(user, K_is_active) = Bool(TRUE)

\* a step sets the user of the context
UserSet == app'.user # app.user /\ app'.user # Null

\* C20: when handleLogin looks the email up before initDatabase has
\* returned, getUserByEmail raises 'Database not initialized' or returns
\* null, and the handler sets no user, does not navigate and leaves the stored
\* credentials as they were; and a user is only ever set to an active record
\* read from the store
C20_InitGuardsLogin ==
  /\ [][(LooksUp /\ Initializing) =>
          /\ calls'["login"].result \in {NotInitialized, Ok(Null)}
          /\ Refused]_vars
  /\ [][UserSet => ActiveRecord(users', app'.user)]_vars

\* C20 as the code has it: until openDatabaseAsync has returned the lookup
\* raises 'Database not initialized'; from then on, initDatabase still running,
\* it raises that the table is missing, returns null, or returns an active
\* record that is in the table already, and only in the last case does the
\* login go on to store or clear the credentials and set that user; in the
\* others the handler alerts, sets no user, does not navigate and leaves the
\* stored credentials as they were. A user is only ever set to an active
\* record read from the store
C20_LoginDuringInit ==
  /\ [][(LooksUp /\ database = "null") =>
          /\ calls'["login"].result = NotInitialized
          /\ Refused]_vars
  /\ [][(LooksUp /\ Initializing /\ database # "null") =>
          \/ calls'["login"].result \in {NoSuchTable, Ok(Null)} /\ Refused
          \/ /\ calls'["login"].pc \in {"setEmail", "deleteEmail"}
             /\ ActiveRecord(users, calls'["login"].found)
             /\ <<app', secureStore'>> = <<app, secureStore>>]_vars
  /\ [][UserSet => ActiveRecord(users', app'.user)]_vars

\* C20 happens: John is logged in and on the QR screen while initDatabase is
\* still inserting the demo records
C20_Witness ==
  /\ app.route = "qr-display"
  /\ GetProp(app.user, K_email) = Str(JohnEmail)
  /\ Awaits("setupApp", "insert")
  /\ Awaits("login", "done")

====
